---- MODULE Spec2Model ----
(***************************************************************************)
(* Model of the Sudoku engine of src/src/js/SudokuSolver.js (the class     *)
(* that declares BOARD_SIZE, BOX_SIZE and DIFFICULTY_CONFIG), of the times *)
(* and statistics kept by src/src/js/SudokuStorage.js, and of the event    *)
(* handlers of src/src/js/SudokuController.js.                             *)
(*                                                                         *)
(* A board is a 9x9 array board[row][col] of integers 0..9, 0 = empty,     *)
(* rows and columns numbered 0..8 as in the source.  The recursive         *)
(* functions solve and solveRandomly run as a machine with an explicit     *)
(* call stack: one frame per invocation that found an empty cell.          *)
(***************************************************************************)
EXTENDS Integers, Sequences, FiniteSets, TLC

VARIABLES
    board,          \* the array an operation works on (argument / newBoard)
    entry,          \* that array as it was when the operation was called
    pc,             \* position of the running operation
    op,             \* the operation that is running or has run
    args,           \* scalar arguments of the isValid call
    retval,         \* boolean returned by the last invocation
    conflicts,      \* Set returned by the last detectConflicts
    prevConflicts,  \* Set returned by the detectConflicts before that one
    calls,          \* number of detectConflicts calls made on the board
    stack,          \* frames of the active solve / solveRandomly invocations
    rng,            \* state of the engine's Math.random generator
    difficulty,     \* generate: the difficulty argument
    cellsToRemove,  \* generate: the looked-up removal count
    removed,        \* generate: the removal counter
    solved,         \* generate: newBoard as solveRandomly left it (step 1)
    thisBoard,      \* this.board
    initialBoard,   \* this.initialBoard
    hintArg,        \* getHint: the caller's array passed as board
    hintCell,       \* getHint: [row, col] = emptyCells[randomIndex]
    hint,           \* getHint: the value returned
    solveResult,    \* boolean solve returned on a board equal to entry
    savedGame,      \* localStorage: sudoku_current_game
    bestTimes,      \* localStorage: sudoku_best_times
    stats,          \* localStorage: sudoku_statistics
    timesSaved,     \* times passed to saveTime since the storage was
                    \* last empty, per difficulty
    selectedCell,   \* ui.selectedCell
    message,        \* content of the ui's dialog: a message, or "none"
    msgTimers,      \* pending MESSAGE_TIMEOUT callbacks
    timer,          \* controller.timer, in seconds
    isRunning,      \* controller.isRunning (the timer interval is set)
    currentDifficulty, \* controller.currentDifficulty
    pending,        \* scheduled solveSudoku callbacks: their
                    \* currentBoardIsValid, oldest first
    handler,        \* the controller method that is running
    steps,          \* number of user actions handled so far
    rendered,       \* renderBoard has run: the board has its cell elements
    installed       \* the grid in the array the callback of solveSudoku
                    \* assigned to this.board, while this.board is that
                    \* array; Null otherwise

hintVars == << hintArg, hintCell, hint, solveResult >>

storeVars == << savedGame, bestTimes, stats, timesSaved >>

ctlVars == << selectedCell, message, msgTimers, timer, isRunning,
             currentDifficulty, pending, handler, steps, rendered,
             installed >>

otherVars == << hintVars, storeVars, ctlVars >>

vars == << board, entry, pc, op, args, retval, conflicts, prevConflicts,
           calls, stack, rng, difficulty, cellsToRemove, removed, solved,
           thisBoard, initialBoard, otherVars >>

----------------------------------------------------------------------------
(* Class constants.                                                        *)

BOARD_SIZE == 9
BOX_SIZE == 3
MIN_NUMBER == 1
MAX_NUMBER == 9

Undefined == "undefined"

DIFFICULTY_CONFIG ==
    [easy |-> 35, medium |-> 45, hard |-> 55]

Index == 0 .. (BOARD_SIZE - 1)
Cells == Index \X Index
Numbers == MIN_NUMBER .. MAX_NUMBER

Null == << >>

----------------------------------------------------------------------------
(* Bounds of the checked instances.                                        *)

MaxBlank == 4       \* input boards have at most this many emptied cells
NumSeeds == 12      \* Math.random streams tried by solveRandomly alone
NumGenSeeds == 2    \* Math.random streams tried by generate
MaxCalls == 2       \* detectConflicts is called at most this often in a row
NumHintSeeds == 3   \* Math.random states tried by a getHint call
NumRandSeeds == 3   \* Math.random streams tried by solveRandomly on a board
MaxTime == 2        \* times passed to saveTime are 0 .. MaxTime seconds
MaxSaves == 11      \* saveTime is called at most this often
MaxPlayed == 1      \* incrementPlayed is called at most this often per tag
MaxSteps == 3       \* user actions handled by the controller in a session
MaxStepsBeforeGenerate == 0  \* a puzzle is generated after at most this
                             \* many user actions

----------------------------------------------------------------------------
(* Board helpers.                                                          *)

createEmptyBoard ==
    [r \in Index |-> [c \in Index |-> 0]]

copyBoard(b) ==
    [r \in Index |-> [c \in Index |-> b[r][c]]]

SetCell(b, row, col, v) ==
    [b EXCEPT ![row][col] = v]

----------------------------------------------------------------------------
(* isValid: row loop, column loop, box loop; each returns false at the     *)
(* first other cell that holds num.                                        *)

IsValid_BoxFromRow(b, row, col, num) ==
    LET startRow == (row \div BOX_SIZE) * BOX_SIZE
        startCol == (row \div BOX_SIZE) * BOX_SIZE
    IN  /\ ~ \E x \in Index : x # col /\ b[row][x] = num
        /\ ~ \E x \in Index : x # row /\ b[x][col] = num
        /\ ~ \E i, j \in 0 .. (BOX_SIZE - 1) :
                LET r == startRow + i
                    c == startCol + j
                IN  (r # row \/ c # col) /\ b[r][c] = num

IsValid(b, row, col, num) ==
    LET startRow == (row \div BOX_SIZE) * BOX_SIZE
        startCol == (col \div BOX_SIZE) * BOX_SIZE
    IN  /\ ~ \E x \in Index : x # col /\ b[row][x] = num
        /\ ~ \E x \in Index : x # row /\ b[x][col] = num
        /\ ~ \E i, j \in 0 .. (BOX_SIZE - 1) :
                LET r == startRow + i
                    c == startCol + j
                IN  (r # row \/ c # col) /\ b[r][c] = num

----------------------------------------------------------------------------
(* findEmpty: first empty cell in row-major order, or null.  The two       *)
(* nested for loops are the two recursions, on j inside on i.              *)

RECURSIVE FindEmptyInRow(_, _, _)
FindEmptyInRow(b, i, j) ==
    IF j < BOARD_SIZE
    THEN IF b[i][j] = 0 THEN << i, j >> ELSE FindEmptyInRow(b, i, j + 1)
    ELSE Null

RECURSIVE FindEmptyFrom(_, _)
FindEmptyFrom(b, i) ==
    IF i < BOARD_SIZE
    THEN LET found == FindEmptyInRow(b, i, 0)
         IN  IF found # Null THEN found ELSE FindEmptyFrom(b, i + 1)
    ELSE Null

FindEmpty(b) == FindEmptyFrom(b, 0)

----------------------------------------------------------------------------
(* findAllEmpty: the [row, col] pairs of the empty cells, in row-major     *)
(* order.                                                                  *)

RECURSIVE FindAllEmptyInRow(_, _, _)
FindAllEmptyInRow(b, i, j) ==
    IF j < BOARD_SIZE
    THEN (IF b[i][j] = 0 THEN << << i, j >> >> ELSE << >>)
         \o FindAllEmptyInRow(b, i, j + 1)
    ELSE << >>

RECURSIVE FindAllEmptyFrom(_, _)
FindAllEmptyFrom(b, i) ==
    IF i < BOARD_SIZE
    THEN FindAllEmptyInRow(b, i, 0) \o FindAllEmptyFrom(b, i + 1)
    ELSE << >>

FindAllEmpty(b) == FindAllEmptyFrom(b, 0)

----------------------------------------------------------------------------
(* validateBoard and detectConflicts scan the cells in row-major order;    *)
(* every filled cell is zeroed, tested with isValid and written back.      *)
(* Both operators return the array as the call leaves it; st.returned      *)
(* tells that validateBoard has executed its return false.                 *)
(* A conflict key `${i}-${j}` is modelled as the pair <<i, j>>.            *)

RECURSIVE ValidateRow_NoRestoreOnFalse(_, _, _)
ValidateRow_NoRestoreOnFalse(b, i, j) ==
    IF j < BOARD_SIZE
    THEN LET num == b[i][j]
             zeroed == SetCell(b, i, j, 0)
         IN  IF num # 0
             THEN IF ~ IsValid(zeroed, i, j, num)
                  THEN [returned |-> TRUE, board |-> zeroed]
                  ELSE ValidateRow_NoRestoreOnFalse(
                           SetCell(zeroed, i, j, num), i, j + 1)
             ELSE ValidateRow_NoRestoreOnFalse(b, i, j + 1)
    ELSE [returned |-> FALSE, board |-> b]

RECURSIVE ValidateRow(_, _, _)
ValidateRow(b, i, j) ==
    IF j < BOARD_SIZE
    THEN LET num == b[i][j]
             zeroed == SetCell(b, i, j, 0)
         IN  IF num # 0
             THEN IF ~ IsValid(zeroed, i, j, num)
                  THEN [returned |-> TRUE,
                        board |-> SetCell(zeroed, i, j, num)]
                  ELSE ValidateRow(SetCell(zeroed, i, j, num), i, j + 1)
             ELSE ValidateRow(b, i, j + 1)
    ELSE [returned |-> FALSE, board |-> b]

RECURSIVE ValidateFrom(_, _)
ValidateFrom(b, i) ==
    IF i < BOARD_SIZE
    THEN LET st == ValidateRow(b, i, 0)
         IN  IF st.returned
             THEN [ok |-> FALSE, board |-> st.board]
             ELSE ValidateFrom(st.board, i + 1)
    ELSE [ok |-> TRUE, board |-> b]

ValidateBoard(b) == ValidateFrom(b, 0)

RECURSIVE DetectRow_NoRestore(_, _, _, _)
DetectRow_NoRestore(b, i, j, acc) ==
    IF j < BOARD_SIZE
    THEN LET num == b[i][j]
             zeroed == SetCell(b, i, j, 0)
         IN  IF num # 0
             THEN IF ~ IsValid(zeroed, i, j, num)
                  THEN DetectRow_NoRestore(zeroed, i, j + 1,
                                           acc \cup {<< i, j >>})
                  ELSE DetectRow_NoRestore(SetCell(zeroed, i, j, num),
                                           i, j + 1, acc)
             ELSE DetectRow_NoRestore(b, i, j + 1, acc)
    ELSE [conflicts |-> acc, board |-> b]

RECURSIVE DetectRow_FirstOnly(_, _, _, _)
DetectRow_FirstOnly(b, i, j, acc) ==
    IF j < BOARD_SIZE
    THEN LET num == b[i][j]
             zeroed == SetCell(b, i, j, 0)
         IN  IF num # 0 /\ acc = {}
             THEN DetectRow_FirstOnly(
                      SetCell(zeroed, i, j, num), i, j + 1,
                      IF ~ IsValid(zeroed, i, j, num)
                      THEN acc \cup {<< i, j >>} ELSE acc)
             ELSE DetectRow_FirstOnly(b, i, j + 1, acc)
    ELSE [conflicts |-> acc, board |-> b]

RECURSIVE DetectRow(_, _, _, _)
DetectRow(b, i, j, acc) ==
    IF j < BOARD_SIZE
    THEN LET num == b[i][j]
             zeroed == SetCell(b, i, j, 0)
         IN  IF num # 0
             THEN DetectRow(
                      SetCell(zeroed, i, j, num), i, j + 1,
                      IF ~ IsValid(zeroed, i, j, num)
                      THEN acc \cup {<< i, j >>} ELSE acc)
             ELSE DetectRow(b, i, j + 1, acc)
    ELSE [conflicts |-> acc, board |-> b]

RECURSIVE DetectFrom(_, _, _)
DetectFrom(b, i, acc) ==
    IF i < BOARD_SIZE
    THEN LET st == DetectRow(b, i, 0, acc)
         IN  DetectFrom(st.board, i + 1, st.conflicts)
    ELSE [conflicts |-> acc, board |-> b]

DetectConflicts(b) == DetectFrom(b, 0, {})

----------------------------------------------------------------------------
(* Math.random and shuffleArray.  The engine's generator is a stream of    *)
(* numbers in [0,1); the streams tried are those of a linear congruential  *)
(* generator started from each seed.  Math.floor(Math.random() * n) is     *)
(* RandomBelow of the advanced generator state.                            *)

RandMod == 65537
RandMul == 75
RandInc == 74

MathRandom(x) == (RandMul * x + RandInc) % RandMod

RandomBelow(x, n) == (x * n) \div RandMod

\* arr is held with the source's indices 0 .. length-1 at positions 1 .. length
RECURSIVE ShuffleFrom(_, _, _)
ShuffleFrom(arr, i, x) ==
    IF i > 0
    THEN LET x1 == MathRandom(x)
             j == RandomBelow(x1, i + 1)
         IN  ShuffleFrom([arr EXCEPT ![i + 1] = arr[j + 1],
                                     ![j + 1] = arr[i + 1]],
                         i - 1, x1)
    ELSE [arr |-> arr, rng |-> x]

ShuffleArray(array, x) == ShuffleFrom(array, Len(array) - 1, x)

\* Array.from({length: MAX_NUMBER}, (_, i) => i + MIN_NUMBER)
CandidateArray == [k \in 1 .. MAX_NUMBER |-> (k - 1) + MIN_NUMBER]

----------------------------------------------------------------------------
(* SudokuStorage.  The three localStorage items are kept as the values     *)
(* JSON.parse gives back: an absent item reads as null (savedGame), as     *)
(* getEmptyBestTimes() (bestTimes) or as {} (stats).  An entry of a best-  *)
(* times list is kept by its time; its date string is never read back by   *)
(* the storage or the controller.                                          *)

MAX_BEST_TIMES == 10

NoGame == [present |-> FALSE]

StoreTags == {"easy", "medium", "hard"}

getEmptyBestTimes == [d \in StoreTags |-> << >>]

\* a JavaScript number, Infinity, or null
Num(n) == [kind |-> "number", n |-> n]
Infinity == [kind |-> "Infinity", n |-> 0]
JsonNull == [kind |-> "null", n |-> 0]

\* JSON.parse(JSON.stringify(v)) of a numeric field: Infinity is written as
\* null
JsonNumber(v) == IF v.kind = "Infinity" THEN JsonNull ELSE v

getEmptyStatEntry ==
    [played |-> 0, completed |-> 0, totalTime |-> 0, bestTime |-> Infinity]

JsonStatEntry(e) == [e EXCEPT !.bestTime = JsonNumber(e.bestTime)]

isInvalidTime(time) ==
    \/ time.kind = "Infinity"
    \/ time.kind = "null"
    \/ (time.kind = "number" /\ time.n = 0)

\* Array.prototype.sort((a, b) => a.time - b.time): a stable sort, here by
\* insertion from the left
RECURSIVE InsertByTime(_, _)
InsertByTime(sorted, t) ==
    IF sorted = << >> THEN << t >>
    ELSE IF Head(sorted) <= t
         THEN << Head(sorted) >> \o InsertByTime(Tail(sorted), t)
         ELSE << t >> \o sorted

RECURSIVE SortByTime(_)
SortByTime(list) ==
    IF list = << >> THEN << >>
    ELSE InsertByTime(SortByTime(SubSeq(list, 1, Len(list) - 1)),
                      list[Len(list)])

\* slice(0, n)
Slice(list, n) == SubSeq(list, 1, IF Len(list) < n THEN Len(list) ELSE n)

\* the truncation left out
SaveTimeList_NoSlice(list, time) == SortByTime(Append(list, time))

\* the list is not sorted after the push
SaveTimeList_NoSort(list, time) == Slice(Append(list, time), MAX_BEST_TIMES)

\* push, sort, slice
SaveTimeList(list, time) ==
    Slice(SortByTime(Append(list, time)), MAX_BEST_TIMES)

\* the statistics item after updateStatistics(d, time)
UpdateStatistics(st, d, time) ==
    LET e0 == IF d \in DOMAIN st THEN st[d] ELSE getEmptyStatEntry
        e1 == [e0 EXCEPT !.completed = @ + 1, !.totalTime = @ + time]
        currentBest == e1.bestTime
        e2 == [e1 EXCEPT !.bestTime =
                  IF isInvalidTime(currentBest) THEN Num(time)
                  ELSE Num(IF currentBest.n < time THEN currentBest.n
                           ELSE time)]
    IN  [x \in DOMAIN st \cup {d} |->
            IF x = d THEN JsonStatEntry(e2) ELSE st[x]]

\* the statistics item after incrementPlayed(d)
IncrementPlayedStats(st, d) ==
    LET e0 == IF d \in DOMAIN st THEN st[d] ELSE getEmptyStatEntry
        e1 == [e0 EXCEPT !.played = @ + 1]
    IN  [x \in DOMAIN st \cup {d} |->
            IF x = d THEN JsonStatEntry(e1) ELSE st[x]]

\* saveTime(d, time) for a tag of the best-times object
SaveTimeEffect(d, time) ==
    /\ bestTimes' = [bestTimes EXCEPT ![d] = SaveTimeList(@, time)]
    /\ stats' = UpdateStatistics(stats, d, time)
    /\ timesSaved' = [timesSaved EXCEPT ![d][time] = @ + 1]

TimesTried == 0 .. MaxTime

InitStorage ==
    /\ savedGame = NoGame
    /\ bestTimes = getEmptyBestTimes
    /\ stats = << >>
    /\ timesSaved = [d \in StoreTags |-> [t \in TimesTried |-> 0]]

----------------------------------------------------------------------------
(* Input boards: the base grid with up to MaxBlank cells of Window         *)
(* emptied and one cell of Window overwritten with a value.                *)

BaseGrid ==
    [r \in Index |-> [c \in Index |->
        9 - (((r % 3) * 3 + (r \div 3) + c) % 9)]]

Window == { << 0, 0 >>, << 0, 4 >>, << 1, 1 >>,
            << 4, 0 >>, << 4, 4 >>, << 8, 8 >> }

InputBoards ==
    { [r \in Index |-> [c \in Index |->
          IF << r, c >> \in S THEN 0
          ELSE IF << r, c >> = p THEN v
          ELSE BaseGrid[r][c]]] :
      S \in { T \in SUBSET Window : Cardinality(T) <= MaxBlank },
      p \in Window, v \in Numbers }

NoArgs == [row |-> 0, col |-> 0, num |-> 0]
NoCount == [isNumber |-> TRUE, n |-> 0]

\* getHint returns null
NullHint == [row |-> -1, col |-> -1, num |-> 0]

NoDifficulty == "null"

\* the controller's fields as its constructor sets them, nothing scheduled
InitController ==
    /\ selectedCell = Null
    /\ message = "none"
    /\ msgTimers = 0
    /\ timer = 0
    /\ isRunning = FALSE
    /\ currentDifficulty = NoDifficulty
    /\ pending = << >>
    /\ handler = "none"
    /\ steps = 0
    /\ rendered = TRUE
    /\ installed = Null

InitHint ==
    /\ hintArg = createEmptyBoard
    /\ hintCell = Null
    /\ hint = NullHint
    /\ solveResult = FALSE

Init ==
    /\ board \in InputBoards
    /\ entry = board
    /\ pc = "idle"
    /\ op = "none"
    /\ args = NoArgs
    /\ retval = FALSE
    /\ conflicts = {}
    /\ prevConflicts = {}
    /\ calls = 0
    /\ stack = << >>
    /\ rng = 0
    /\ difficulty = Undefined
    /\ cellsToRemove = NoCount
    /\ removed = 0
    /\ solved = createEmptyBoard
    /\ thisBoard = createEmptyBoard
    /\ initialBoard = createEmptyBoard
    /\ InitHint
    /\ InitStorage
    /\ InitController

----------------------------------------------------------------------------
(* Calls of the pure operations on the input board.                        *)

IsValidCall(row, col, num) ==
    /\ pc = "idle"
    /\ pc' = "done"
    /\ op' = "isValid"
    /\ args' = [row |-> row, col |-> col, num |-> num]
    /\ retval' = IsValid(board, row, col, num)
    /\ UNCHANGED << board, entry, conflicts, prevConflicts, calls, stack,
                    rng, difficulty, cellsToRemove, removed, solved,
                    thisBoard, initialBoard >>
    /\ UNCHANGED otherVars

ValidateBoardCall ==
    /\ pc = "idle"
    /\ LET r == ValidateBoard(board)
       IN  /\ retval' = r.ok
           /\ board' = r.board
    /\ pc' = "done"
    /\ op' = "validateBoard"
    /\ UNCHANGED << entry, args, conflicts, prevConflicts, calls, stack,
                    rng, difficulty, cellsToRemove, removed, solved,
                    thisBoard, initialBoard >>
    /\ UNCHANGED otherVars

DetectConflictsCall ==
    /\ \/ pc = "idle"
       \/ pc = "done" /\ op = "detectConflicts"
    /\ calls < MaxCalls
    /\ LET r == DetectConflicts(board)
       IN  /\ conflicts' = r.conflicts
           /\ board' = r.board
    /\ prevConflicts' = conflicts
    /\ calls' = calls + 1
    /\ pc' = "done"
    /\ op' = "detectConflicts"
    /\ UNCHANGED << entry, args, retval, stack, rng, difficulty,
                    cellsToRemove, removed, solved, thisBoard,
                    initialBoard >>
    /\ UNCHANGED otherVars

----------------------------------------------------------------------------
(* solve.  A frame [row, col, num] is an invocation inside its for loop.   *)
(* pc = "enter": an invocation starts; "loop": the top frame is at the     *)
(* head of its loop; "return": the invocation called by the top frame has  *)
(* returned retval; "done": the outermost invocation has returned.         *)

Top(stk) == stk[Len(stk)]
Pop(stk) == SubSeq(stk, 1, Len(stk) - 1)
SetTop(stk, f) == [stk EXCEPT ![Len(stk)] = f]

AfterReturn(stk) ==
    IF stk # << >> THEN "return"
    ELSE IF op = "generate" THEN "lookup"
    ELSE "done"

SolveStart ==
    /\ pc = "idle"
    /\ pc' = "enter"
    /\ op' = "solve"
    /\ UNCHANGED << board, entry, args, retval, conflicts, prevConflicts,
                    calls, stack, rng, difficulty, cellsToRemove, removed,
                    solved, thisBoard, initialBoard >>
    /\ UNCHANGED otherVars

\* the candidate loop starts at MIN_NUMBER + 1
SolveEnter_SkipsFirstCandidate ==
    /\ pc = "enter"
    /\ op = "solve"
    /\ LET empty == FindEmpty(board)
       IN  IF empty = Null
           THEN /\ retval' = TRUE
                /\ pc' = AfterReturn(stack)
                /\ stack' = stack
           ELSE /\ stack' = Append(stack, [row |-> empty[1],
                                           col |-> empty[2],
                                           num |-> MIN_NUMBER + 1])
                /\ pc' = "loop"
                /\ retval' = retval
    /\ UNCHANGED << board, entry, op, args, conflicts, prevConflicts, calls,
                    rng, difficulty, cellsToRemove, removed, solved,
                    thisBoard, initialBoard >>
    /\ UNCHANGED otherVars

SolveEnter ==
    /\ pc = "enter"
    /\ op = "solve"
    /\ LET empty == FindEmpty(board)
       IN  IF empty = Null
           THEN /\ retval' = TRUE
                /\ pc' = AfterReturn(stack)
                /\ stack' = stack
           ELSE /\ stack' = Append(stack, [row |-> empty[1],
                                           col |-> empty[2],
                                           num |-> MIN_NUMBER])
                /\ pc' = "loop"
                /\ retval' = retval
    /\ UNCHANGED << board, entry, op, args, conflicts, prevConflicts, calls,
                    rng, difficulty, cellsToRemove, removed, solved,
                    thisBoard, initialBoard >>
    /\ UNCHANGED otherVars

SolveTry_NoCheck ==
    /\ pc = "loop"
    /\ op = "solve"
    /\ LET f == Top(stack)
       IN  IF f.num <= MAX_NUMBER
           THEN /\ board' = SetCell(board, f.row, f.col, f.num)
                /\ pc' = "enter"
                /\ UNCHANGED << stack, retval >>
           ELSE /\ stack' = Pop(stack)
                /\ retval' = FALSE
                /\ pc' = AfterReturn(Pop(stack))
                /\ board' = board
    /\ UNCHANGED << entry, op, args, conflicts, prevConflicts, calls, rng,
                    difficulty, cellsToRemove, removed, solved, thisBoard,
                    initialBoard >>
    /\ UNCHANGED otherVars

SolveTry ==
    /\ pc = "loop"
    /\ op = "solve"
    /\ LET f == Top(stack)
       IN  IF f.num <= MAX_NUMBER
           THEN IF IsValid(board, f.row, f.col, f.num)
                THEN /\ board' = SetCell(board, f.row, f.col, f.num)
                     /\ pc' = "enter"
                     /\ UNCHANGED << stack, retval >>
                ELSE /\ stack' = SetTop(stack, [f EXCEPT !.num = f.num + 1])
                     /\ pc' = "loop"
                     /\ UNCHANGED << board, retval >>
           ELSE /\ stack' = Pop(stack)
                /\ retval' = FALSE
                /\ pc' = AfterReturn(Pop(stack))
                /\ board' = board
    /\ UNCHANGED << entry, op, args, conflicts, prevConflicts, calls, rng,
                    difficulty, cellsToRemove, removed, solved, thisBoard,
                    initialBoard >>
    /\ UNCHANGED otherVars

\* the placement is not undone after a failed recursive call
SolveReturn_NoUndo ==
    /\ pc = "return"
    /\ op = "solve"
    /\ LET f == Top(stack)
       IN  IF retval
           THEN /\ stack' = Pop(stack)
                /\ pc' = AfterReturn(Pop(stack))
                /\ board' = board
           ELSE /\ board' = board
                /\ stack' = SetTop(stack, [f EXCEPT !.num = f.num + 1])
                /\ pc' = "loop"
    /\ UNCHANGED << entry, op, args, retval, conflicts, prevConflicts, calls,
                    rng, difficulty, cellsToRemove, removed, solved,
                    thisBoard, initialBoard >>
    /\ UNCHANGED otherVars

\* the undo writes board[col][row]
SolveReturn_UndoTransposed ==
    /\ pc = "return"
    /\ op = "solve"
    /\ LET f == Top(stack)
       IN  IF retval
           THEN /\ stack' = Pop(stack)
                /\ pc' = AfterReturn(Pop(stack))
                /\ board' = board
           ELSE /\ board' = SetCell(board, f.col, f.row, 0)
                /\ stack' = SetTop(stack, [f EXCEPT !.num = f.num + 1])
                /\ pc' = "loop"
    /\ UNCHANGED << entry, op, args, retval, conflicts, prevConflicts, calls,
                    rng, difficulty, cellsToRemove, removed, solved,
                    thisBoard, initialBoard >>
    /\ UNCHANGED otherVars

SolveReturn ==
    /\ pc = "return"
    /\ op = "solve"
    /\ LET f == Top(stack)
       IN  IF retval
           THEN /\ stack' = Pop(stack)
                /\ pc' = AfterReturn(Pop(stack))
                /\ board' = board
           ELSE /\ board' = SetCell(board, f.row, f.col, 0)
                /\ stack' = SetTop(stack, [f EXCEPT !.num = f.num + 1])
                /\ pc' = "loop"
    /\ UNCHANGED << entry, op, args, retval, conflicts, prevConflicts, calls,
                    rng, difficulty, cellsToRemove, removed, solved,
                    thisBoard, initialBoard >>
    /\ UNCHANGED otherVars

Next ==
    \/ \E cell \in Window, num \in Numbers :
           IsValidCall(cell[1], cell[2], num)
    \/ ValidateBoardCall
    \/ DetectConflictsCall
    \/ SolveStart
    \/ SolveEnter
    \/ SolveTry
    \/ SolveReturn

Spec == Init /\ [][Next]_vars

\* solve runs to completion on the calling thread: a started run is never
\* left unfinished
SpecLive == Spec /\ WF_vars(SolveEnter \/ SolveTry \/ SolveReturn)

----------------------------------------------------------------------------
(* getHint.  hintArg is the array the caller passed; board is boardCopy,   *)
(* the array handed to solve, whose run is the solve machine above.  x is  *)
(* the state of the Math.random generator when getHint is called.          *)

\* the early return removed: the solver runs on a full board too
GetHintBegin_NoEarlyReturn(b, x) ==
    LET emptyCells == FindAllEmpty(b)
        x1 == MathRandom(x)
    IN  /\ hintArg' = b
        /\ entry' = b
        /\ rng' = x1
        /\ hintCell' = IF Len(emptyCells) = 0 THEN << 0, 0 >>
                       ELSE emptyCells[RandomBelow(x1, Len(emptyCells)) + 1]
        /\ board' = copyBoard(b)
        /\ op' = "solve"
        /\ pc' = "enter"
        /\ stack' = << >>
        /\ hint' = NullHint

GetHintBegin(b, x) ==
    LET emptyCells == FindAllEmpty(b)
        x1 == MathRandom(x)
    IN  /\ hintArg' = b
        /\ entry' = b
        /\ IF Len(emptyCells) = 0
           THEN /\ hint' = NullHint
                /\ hintCell' = Null
                /\ rng' = x
                /\ board' = board
                /\ op' = "getHint"
                /\ pc' = "done"
                /\ stack' = stack
           ELSE /\ rng' = x1
                /\ hintCell' = emptyCells[RandomBelow(x1, Len(emptyCells)) + 1]
                /\ board' = copyBoard(b)
                /\ op' = "solve"
                /\ pc' = "enter"
                /\ stack' = << >>
                /\ hint' = NullHint

\* generator states spread over the range of Math.random
SeedStride == 350
HintSeeds == { k * SeedStride : k \in 0 .. (NumHintSeeds - 1) }

GetHintCall(x) ==
    /\ pc = "idle"
    /\ GetHintBegin(board, x)
    /\ UNCHANGED << args, retval, conflicts, prevConflicts, calls,
                    difficulty, cellsToRemove, removed, solved, thisBoard,
                    initialBoard, solveResult >>
    /\ UNCHANGED << storeVars, ctlVars >>

\* boardCopy is the caller's array itself: what solve wrote shows in it
GetHintReturn_NoCopy ==
    /\ pc = "done"
    /\ op = "solve"
    /\ hintCell # Null
    /\ hint' = IF retval
               THEN [row |-> hintCell[1], col |-> hintCell[2],
                     num |-> board[hintCell[1]][hintCell[2]]]
               ELSE NullHint
    /\ hintArg' = board
    /\ op' = "getHint"
    /\ UNCHANGED << board, entry, pc, args, retval, conflicts, prevConflicts,
                    calls, stack, rng, difficulty, cellsToRemove, removed,
                    solved, thisBoard, initialBoard, hintCell, solveResult >>
    /\ UNCHANGED << storeVars, ctlVars >>

\* num read from board instead of boardCopy
GetHintReturn_NumFromBoard ==
    /\ pc = "done"
    /\ op = "solve"
    /\ hintCell # Null
    /\ hint' = IF retval
               THEN [row |-> hintCell[1], col |-> hintCell[2],
                     num |-> hintArg[hintCell[1]][hintCell[2]]]
               ELSE NullHint
    /\ op' = "getHint"
    /\ UNCHANGED << board, entry, pc, args, retval, conflicts, prevConflicts,
                    calls, stack, rng, difficulty, cellsToRemove, removed,
                    solved, thisBoard, initialBoard, hintArg, hintCell,
                    solveResult >>
    /\ UNCHANGED << storeVars, ctlVars >>

\* the test of solve's result negated
GetHintReturn_Negated ==
    /\ pc = "done"
    /\ op = "solve"
    /\ hintCell # Null
    /\ hint' = IF ~retval
               THEN [row |-> hintCell[1], col |-> hintCell[2],
                     num |-> board[hintCell[1]][hintCell[2]]]
               ELSE NullHint
    /\ op' = "getHint"
    /\ UNCHANGED << board, entry, pc, args, retval, conflicts, prevConflicts,
                    calls, stack, rng, difficulty, cellsToRemove, removed,
                    solved, thisBoard, initialBoard, hintArg, hintCell,
                    solveResult >>
    /\ UNCHANGED << storeVars, ctlVars >>

\* if (this.solve(boardCopy)) return { row, col, num } else return null
GetHintReturn ==
    /\ pc = "done"
    /\ op = "solve"
    /\ hintCell # Null
    /\ hint' = IF retval
               THEN [row |-> hintCell[1], col |-> hintCell[2],
                     num |-> board[hintCell[1]][hintCell[2]]]
               ELSE NullHint
    /\ op' = "getHint"
    /\ UNCHANGED << board, entry, pc, args, retval, conflicts, prevConflicts,
                    calls, stack, rng, difficulty, cellsToRemove, removed,
                    solved, thisBoard, initialBoard, hintArg, hintCell,
                    solveResult >>
    /\ UNCHANGED << storeVars, ctlVars >>

NextHint ==
    \/ \E x \in HintSeeds : GetHintCall(x)
    \/ SolveEnter
    \/ SolveTry
    \/ SolveReturn
    \/ GetHintReturn

SpecHint == Init /\ [][NextHint]_vars

----------------------------------------------------------------------------
(* solveRandomly.  A frame [row, col, numbers, k]: numbers is the shuffled *)
(* candidate array, k the position of the for-of iterator (from 1).        *)

SolveRandomlyStart ==
    /\ pc = "idle"
    /\ board' = createEmptyBoard
    /\ entry' = createEmptyBoard
    /\ pc' = "enter"
    /\ op' = "solveRandomly"
    /\ UNCHANGED << args, retval, conflicts, prevConflicts, calls, stack,
                    rng, difficulty, cellsToRemove, removed, solved,
                    thisBoard, initialBoard >>
    /\ UNCHANGED otherVars

SolveRandomlyEnter ==
    /\ pc = "enter"
    /\ op \in {"solveRandomly", "generate"}
    /\ LET empty == FindEmpty(board)
           sh == ShuffleArray(CandidateArray, rng)
       IN  IF empty = Null
           THEN /\ retval' = TRUE
                /\ pc' = AfterReturn(stack)
                /\ UNCHANGED << stack, rng >>
           ELSE /\ stack' = Append(stack, [row |-> empty[1],
                                           col |-> empty[2],
                                           numbers |-> sh.arr,
                                           k |-> 1])
                /\ rng' = sh.rng
                /\ pc' = "loop"
                /\ retval' = retval
    /\ UNCHANGED << board, entry, op, args, conflicts, prevConflicts, calls,
                    difficulty, cellsToRemove, removed, solved, thisBoard,
                    initialBoard >>
    /\ UNCHANGED otherVars

\* the loop leaves out the last candidate of the shuffled array
SolveRandomlyTry_SkipLast ==
    /\ pc = "loop"
    /\ op \in {"solveRandomly", "generate"}
    /\ LET f == Top(stack)
       IN  IF f.k < Len(f.numbers)
           THEN IF IsValid(board, f.row, f.col, f.numbers[f.k])
                THEN /\ board' = SetCell(board, f.row, f.col, f.numbers[f.k])
                     /\ pc' = "enter"
                     /\ UNCHANGED << stack, retval >>
                ELSE /\ stack' = SetTop(stack, [f EXCEPT !.k = f.k + 1])
                     /\ pc' = "loop"
                     /\ UNCHANGED << board, retval >>
           ELSE /\ stack' = Pop(stack)
                /\ retval' = FALSE
                /\ pc' = AfterReturn(Pop(stack))
                /\ board' = board
    /\ UNCHANGED << entry, op, args, conflicts, prevConflicts, calls, rng,
                    difficulty, cellsToRemove, removed, solved, thisBoard,
                    initialBoard >>
    /\ UNCHANGED otherVars

SolveRandomlyTry_NoCheck ==
    /\ pc = "loop"
    /\ op \in {"solveRandomly", "generate"}
    /\ LET f == Top(stack)
       IN  IF f.k <= Len(f.numbers)
           THEN /\ board' = SetCell(board, f.row, f.col, f.numbers[f.k])
                /\ pc' = "enter"
                /\ UNCHANGED << stack, retval >>
           ELSE /\ stack' = Pop(stack)
                /\ retval' = FALSE
                /\ pc' = AfterReturn(Pop(stack))
                /\ board' = board
    /\ UNCHANGED << entry, op, args, conflicts, prevConflicts, calls, rng,
                    difficulty, cellsToRemove, removed, solved, thisBoard,
                    initialBoard >>
    /\ UNCHANGED otherVars

SolveRandomlyTry ==
    /\ pc = "loop"
    /\ op \in {"solveRandomly", "generate"}
    /\ LET f == Top(stack)
       IN  IF f.k <= Len(f.numbers)
           THEN IF IsValid(board, f.row, f.col, f.numbers[f.k])
                THEN /\ board' = SetCell(board, f.row, f.col, f.numbers[f.k])
                     /\ pc' = "enter"
                     /\ UNCHANGED << stack, retval >>
                ELSE /\ stack' = SetTop(stack, [f EXCEPT !.k = f.k + 1])
                     /\ pc' = "loop"
                     /\ UNCHANGED << board, retval >>
           ELSE /\ stack' = Pop(stack)
                /\ retval' = FALSE
                /\ pc' = AfterReturn(Pop(stack))
                /\ board' = board
    /\ UNCHANGED << entry, op, args, conflicts, prevConflicts, calls, rng,
                    difficulty, cellsToRemove, removed, solved, thisBoard,
                    initialBoard >>
    /\ UNCHANGED otherVars

SolveRandomlyReturn_NoUndo ==
    /\ pc = "return"
    /\ op \in {"solveRandomly", "generate"}
    /\ LET f == Top(stack)
       IN  IF retval
           THEN /\ stack' = Pop(stack)
                /\ pc' = AfterReturn(Pop(stack))
                /\ board' = board
           ELSE /\ board' = board
                /\ stack' = SetTop(stack, [f EXCEPT !.k = f.k + 1])
                /\ pc' = "loop"
    /\ UNCHANGED << entry, op, args, retval, conflicts, prevConflicts, calls,
                    rng, difficulty, cellsToRemove, removed, solved,
                    thisBoard, initialBoard >>
    /\ UNCHANGED otherVars

SolveRandomlyReturn ==
    /\ pc = "return"
    /\ op \in {"solveRandomly", "generate"}
    /\ LET f == Top(stack)
       IN  IF retval
           THEN /\ stack' = Pop(stack)
                /\ pc' = AfterReturn(Pop(stack))
                /\ board' = board
           ELSE /\ board' = SetCell(board, f.row, f.col, 0)
                /\ stack' = SetTop(stack, [f EXCEPT !.k = f.k + 1])
                /\ pc' = "loop"
    /\ UNCHANGED << entry, op, args, retval, conflicts, prevConflicts, calls,
                    rng, difficulty, cellsToRemove, removed, solved,
                    thisBoard, initialBoard >>
    /\ UNCHANGED otherVars

----------------------------------------------------------------------------
(* solveRandomly on an input board, after solve has run on an equal        *)
(* board: solveResult keeps what solve returned, board starts again as the *)
(* board of the call and x is the state of the Math.random generator.      *)

SolveRandomlyOnEqualBoard(x) ==
    /\ pc = "done"
    /\ op = "solve"
    /\ hintCell = Null
    /\ solveResult' = retval
    /\ board' = copyBoard(entry)
    /\ rng' = x
    /\ op' = "solveRandomly"
    /\ pc' = "enter"
    /\ stack' = << >>
    /\ UNCHANGED << entry, args, retval, conflicts, prevConflicts, calls,
                    difficulty, cellsToRemove, removed, solved, thisBoard,
                    initialBoard, hintArg, hintCell, hint >>
    /\ UNCHANGED << storeVars, ctlVars >>

RandSeeds == 1 .. NumRandSeeds

NextRand ==
    \/ SolveStart
    \/ SolveEnter
    \/ SolveTry
    \/ SolveReturn
    \/ \E x \in RandSeeds : SolveRandomlyOnEqualBoard(x)
    \/ SolveRandomlyEnter
    \/ SolveRandomlyTry
    \/ SolveRandomlyReturn

SpecRand == Init /\ [][NextRand]_vars

----------------------------------------------------------------------------
(* generate.  DIFFICULTY_CONFIG[difficulty] is a property read of a plain  *)
(* object: an own key gives its number, a key inherited from               *)
(* Object.prototype gives that member (a truthy non-number, which          *)
(* `removed < cellsToRemove` compares as NaN), any other key undefined,    *)
(* for which `||` takes DIFFICULTY_CONFIG.medium.                          *)

ObjectPrototypeKeys ==
    { "constructor", "toString", "toLocaleString", "valueOf",
      "hasOwnProperty", "isPrototypeOf", "propertyIsEnumerable",
      "__proto__", "__defineGetter__", "__defineSetter__",
      "__lookupGetter__", "__lookupSetter__" }

DifficultyTags ==
    { "easy", "medium", "hard", "bogus", "constructor", Undefined }

CellsToRemove(d) ==
    IF d \in DOMAIN DIFFICULTY_CONFIG
    THEN [isNumber |-> TRUE, n |-> DIFFICULTY_CONFIG[d]]
    ELSE IF d \in ObjectPrototypeKeys
         THEN [isNumber |-> FALSE, n |-> 0]
         ELSE [isNumber |-> TRUE, n |-> DIFFICULTY_CONFIG.medium]

\* removed < cellsToRemove
LessThan(n, count) == count.isNumber /\ n < count.n

GenerateStart(d) ==
    /\ pc = "idle"
    /\ rng <= NumGenSeeds
    /\ difficulty' = IF d = Undefined THEN "medium" ELSE d
    /\ board' = createEmptyBoard
    /\ entry' = createEmptyBoard
    /\ op' = "generate"
    /\ pc' = "enter"
    /\ UNCHANGED << args, retval, conflicts, prevConflicts, calls, stack,
                    rng, cellsToRemove, removed, solved, thisBoard,
                    initialBoard >>
    /\ UNCHANGED otherVars

GenerateLookup ==
    /\ pc = "lookup"
    /\ solved' = board
    /\ cellsToRemove' = CellsToRemove(difficulty)
    /\ removed' = 0
    /\ pc' = "remove"
    /\ UNCHANGED << board, entry, op, args, retval, conflicts,
                    prevConflicts, calls, stack, rng, difficulty, thisBoard,
                    initialBoard >>
    /\ UNCHANGED otherVars

GenerateRemove_CountAlways ==
    /\ pc = "remove"
    /\ LessThan(removed, cellsToRemove)
    /\ LET x1 == MathRandom(rng)
           x2 == MathRandom(x1)
           row == RandomBelow(x1, BOARD_SIZE)
           col == RandomBelow(x2, BOARD_SIZE)
       IN  /\ rng' = x2
           /\ board' = SetCell(board, row, col, 0)
           /\ removed' = removed + 1
    /\ UNCHANGED << entry, pc, op, args, retval, conflicts, prevConflicts,
                    calls, stack, difficulty, cellsToRemove, solved,
                    thisBoard, initialBoard >>
    /\ UNCHANGED otherVars

GenerateRemove ==
    /\ pc = "remove"
    /\ LessThan(removed, cellsToRemove)
    /\ LET x1 == MathRandom(rng)
           x2 == MathRandom(x1)
           row == RandomBelow(x1, BOARD_SIZE)
           col == RandomBelow(x2, BOARD_SIZE)
       IN  /\ rng' = x2
           /\ IF board[row][col] # 0
              THEN /\ board' = SetCell(board, row, col, 0)
                   /\ removed' = removed + 1
              ELSE UNCHANGED << board, removed >>
    /\ UNCHANGED << entry, pc, op, args, retval, conflicts, prevConflicts,
                    calls, stack, difficulty, cellsToRemove, solved,
                    thisBoard, initialBoard >>
    /\ UNCHANGED otherVars

GenerateStore ==
    /\ pc = "remove"
    /\ ~ LessThan(removed, cellsToRemove)
    /\ thisBoard' = copyBoard(board)
    /\ initialBoard' = copyBoard(board)
    /\ pc' = "done"
    /\ UNCHANGED << board, entry, op, args, retval, conflicts,
                    prevConflicts, calls, stack, rng, difficulty,
                    cellsToRemove, removed, solved >>
    /\ UNCHANGED otherVars

\* solve run on a copy of the generated puzzle, as getHint does
SolvePuzzleCopy ==
    /\ pc = "done"
    /\ op = "generate"
    /\ board' = copyBoard(thisBoard)
    /\ entry' = copyBoard(thisBoard)
    /\ op' = "solve"
    /\ pc' = "enter"
    /\ UNCHANGED << args, retval, conflicts, prevConflicts, calls, stack,
                    rng, difficulty, cellsToRemove, removed, solved,
                    thisBoard, initialBoard >>
    /\ UNCHANGED otherVars

InitGen ==
    /\ board = createEmptyBoard
    /\ entry = createEmptyBoard
    /\ pc = "idle"
    /\ op = "none"
    /\ args = NoArgs
    /\ retval = FALSE
    /\ conflicts = {}
    /\ prevConflicts = {}
    /\ calls = 0
    /\ stack = << >>
    /\ rng \in 1 .. NumSeeds
    /\ difficulty = Undefined
    /\ cellsToRemove = NoCount
    /\ removed = 0
    /\ solved = createEmptyBoard
    /\ thisBoard = createEmptyBoard
    /\ initialBoard = createEmptyBoard
    /\ InitHint
    /\ InitStorage
    /\ InitController

NextGen ==
    \/ \E d \in DifficultyTags : GenerateStart(d)
    \/ SolveRandomlyStart
    \/ SolveRandomlyEnter
    \/ SolveRandomlyTry
    \/ SolveRandomlyReturn
    \/ GenerateLookup
    \/ GenerateRemove
    \/ GenerateStore
    \/ SolvePuzzleCopy
    \/ SolveEnter
    \/ SolveTry
    \/ SolveReturn

SpecGen == InitGen /\ [][NextGen]_vars

\* solveRandomly runs to completion on the calling thread
SpecGenLive ==
    SpecGen /\ WF_vars(SolveRandomlyEnter \/ SolveRandomlyTry
                          \/ SolveRandomlyReturn)

\* generate runs to completion on the calling thread
SpecGenLoopLive ==
    SpecGenLive /\ WF_vars(GenerateLookup \/ GenerateRemove \/ GenerateStore)

----------------------------------------------------------------------------
(* Calls of saveTime and incrementPlayed on a storage that starts empty.   *)

RECURSIVE SumOver(_, _)
SumOver(f, S) ==
    IF S = {} THEN 0
    ELSE LET x == CHOOSE y \in S : TRUE
         IN  f[x] + SumOver(f, S \ {x})

\* number of saveTime calls made for difficulty d, and in all
SavedCount(d) == SumOver(timesSaved[d], TimesTried)
TotalSaved == SumOver([d \in StoreTags |-> SavedCount(d)], StoreTags)

\* the difficulties passed in the calls
SaveTags == {"easy", "hard"}

EngineIdle ==
    /\ board = createEmptyBoard
    /\ entry = createEmptyBoard
    /\ pc = "idle"
    /\ op = "none"
    /\ args = NoArgs
    /\ retval = FALSE
    /\ conflicts = {}
    /\ prevConflicts = {}
    /\ calls = 0
    /\ stack = << >>
    /\ difficulty = Undefined
    /\ cellsToRemove = NoCount
    /\ removed = 0
    /\ solved = createEmptyBoard
    /\ thisBoard = createEmptyBoard
    /\ initialBoard = createEmptyBoard
    /\ InitHint

InitStore ==
    /\ EngineIdle
    /\ rng = 0
    /\ InitStorage
    /\ InitController

SaveTimeCall(d, time) ==
    /\ TotalSaved < MaxSaves
    /\ SaveTimeEffect(d, time)
    /\ UNCHANGED << board, entry, pc, op, args, retval, conflicts,
                    prevConflicts, calls, stack, rng, difficulty,
                    cellsToRemove, removed, solved, thisBoard, initialBoard,
                    hintVars, savedGame >>
    /\ UNCHANGED ctlVars

IncrementPlayedCall(d) ==
    /\ d \in DOMAIN stats => stats[d].played < MaxPlayed
    /\ stats' = IncrementPlayedStats(stats, d)
    /\ UNCHANGED << board, entry, pc, op, args, retval, conflicts,
                    prevConflicts, calls, stack, rng, difficulty,
                    cellsToRemove, removed, solved, thisBoard, initialBoard,
                    hintVars, savedGame, bestTimes, timesSaved >>
    /\ UNCHANGED ctlVars

\* clearAllData: every item is removed, so that getBestTimes gives
\* getEmptyBestTimes() and getStatistics {} again; timesSaved counts the
\* saveTime calls made on the storage since it was last empty
ClearAllDataCall ==
    /\ savedGame' = NoGame
    /\ bestTimes' = getEmptyBestTimes
    /\ stats' = << >>
    /\ timesSaved' = [d \in StoreTags |-> [t \in TimesTried |-> 0]]
    /\ UNCHANGED << board, entry, pc, op, args, retval, conflicts,
                    prevConflicts, calls, stack, rng, difficulty,
                    cellsToRemove, removed, solved, thisBoard, initialBoard,
                    hintVars >>
    /\ UNCHANGED ctlVars

NextStore ==
    \/ \E d \in SaveTags, time \in TimesTried : SaveTimeCall(d, time)
    \/ \E d \in SaveTags : IncrementPlayedCall(d)
    \/ ClearAllDataCall

SpecStore == InitStore /\ [][NextStore]_vars

----------------------------------------------------------------------------
(* SudokuController (the class that declares AUTOSAVE_INTERVAL).  One      *)
(* action per event handler; a handler that calls generate, getHint or     *)
(* solve runs the engine's machine to its end before its last step, and no *)
(* other handler or timer callback starts meanwhile (pc # "idle").  Of the *)
(* ui only the selected cell and the dialog's content are kept.            *)

\* cells the player is working on, and the keys pressed
PlayCells == { << 0, 4 >>, << 0, 5 >>, << 3, 4 >> }
ClickCells == PlayCells \cup { << 0, 0 >> }
KeysTried == { 0, 4, 5 }

\* the difficulty buttons
CtlTags == {"easy", "medium", "hard"}

\* state of the Math.random generator when the page is loaded
CtlSeed == 41

\* cells a generate("easy") of an earlier session removed from BaseGrid
SavedPattern ==
    { << 0, 1 >>, << 0, 4 >>, << 0, 5 >>, << 1, 4 >>, << 1, 6 >>,
      << 1, 8 >>, << 2, 0 >>, << 2, 1 >>, << 2, 3 >>, << 2, 5 >>,
      << 2, 8 >>, << 3, 0 >>, << 3, 4 >>, << 3, 6 >>, << 3, 7 >>,
      << 4, 1 >>, << 4, 2 >>, << 4, 5 >>, << 4, 8 >>, << 5, 2 >>,
      << 5, 3 >>, << 5, 7 >>, << 5, 8 >>, << 6, 1 >>, << 6, 4 >>,
      << 6, 8 >>, << 7, 3 >>, << 7, 4 >>, << 7, 5 >>, << 7, 7 >>,
      << 7, 8 >>, << 8, 0 >>, << 8, 6 >>, << 8, 7 >>, << 8, 8 >> }

SavedPuzzle ==
    [r \in Index |-> [c \in Index |->
        IF << r, c >> \in SavedPattern THEN 0 ELSE BaseGrid[r][c]]]

\* what saveCurrentGame writes and loadCurrentGame reads back
GameState(b, ib, t, d) ==
    [present |-> TRUE, board |-> b, initialBoard |-> ib, timer |-> t,
     difficulty |-> d]

\* games an earlier session left in localStorage: the player has filled
\* every removed cell with its value of BaseGrid, but one or all of
\* PlayCells
SavedBlanks == { { << 0, 4 >> }, PlayCells }

SavedGames ==
    { GameState([r \in Index |-> [c \in Index |->
                    IF << r, c >> \in S THEN 0 ELSE BaseGrid[r][c]]],
                SavedPuzzle, 1, "easy") :
      S \in SavedBlanks }

\* autoSave
AutoSaved(b, ib, t, d) ==
    IF d # NoDifficulty THEN GameState(b, ib, t, d) ELSE savedGame

InitCtl ==
    /\ EngineIdle
    /\ rng = CtlSeed
    /\ savedGame \in SavedGames \cup { NoGame }
    /\ bestTimes = getEmptyBestTimes
    /\ stats = IF savedGame.present
               THEN IncrementPlayedStats(<< >>, savedGame.difficulty)
               ELSE << >>
    /\ timesSaved = [d \in StoreTags |-> [t \in TimesTried |-> 0]]
    /\ selectedCell = Null
    /\ message = IF savedGame.present THEN "load" ELSE "none"
    /\ msgTimers = 0
    /\ timer = 0
    /\ isRunning = FALSE
    /\ currentDifficulty = NoDifficulty
    /\ pending = << >>
    /\ handler = "none"
    /\ steps = 0
    /\ rendered = ~ savedGame.present
    /\ installed = Null

\* a button, cell or key event can be handled: no handler is running;
\* the listeners stay attached while a dialog is shown
UserCanAct ==
    /\ pc = "idle"
    /\ steps < MaxSteps

\* the solver is asked for a hint or a solution on boards with at most
\* MaxBlank empty cells
FewEmpty(b) == Cardinality({ p \in Cells : b[p[1]][p[2]] = 0 }) <= MaxBlank

\* "Si, continuar": loadSavedGame; expired is the outcome of the test of
\* the saved timestamp against GAME_EXPIRY_DAYS
LoadAccept(expired) ==
    /\ pc = "idle"
    /\ message = "load"
    /\ IF expired \/ ~savedGame.present
       THEN /\ savedGame' = NoGame
            /\ message' = "none"
            /\ UNCHANGED << thisBoard, initialBoard, conflicts, timer,
                            currentDifficulty, msgTimers >>
       ELSE LET rend == DetectConflicts(copyBoard(savedGame.board))
            IN  /\ thisBoard' = rend.board
                /\ initialBoard' = copyBoard(savedGame.initialBoard)
                /\ conflicts' = rend.conflicts
                /\ timer' = savedGame.timer
                /\ currentDifficulty' = savedGame.difficulty
                /\ message' = "loaded"
                /\ msgTimers' = msgTimers + 1
                /\ savedGame' = savedGame
    /\ UNCHANGED << board, entry, pc, op, args, retval, prevConflicts, calls,
                    stack, rng, difficulty, cellsToRemove, removed, solved,
                    hintVars, bestTimes, stats, timesSaved, selectedCell,
                    isRunning, pending, handler, steps >>
    /\ rendered' = (IF expired \/ ~ savedGame.present THEN rendered ELSE TRUE)
    /\ installed' = (IF expired \/ ~ savedGame.present THEN installed ELSE Null)

\* "No, nueva partida"
LoadReject ==
    /\ pc = "idle"
    /\ message = "load"
    /\ savedGame' = NoGame
    /\ LET rend == DetectConflicts(thisBoard)
       IN  /\ thisBoard' = rend.board
           /\ conflicts' = rend.conflicts
    /\ message' = "none"
    /\ UNCHANGED << board, entry, pc, op, args, retval, prevConflicts, calls,
                    stack, rng, difficulty, cellsToRemove, removed, solved,
                    initialBoard, hintVars, bestTimes, stats, timesSaved,
                    selectedCell, msgTimers, timer, isRunning,
                    currentDifficulty, pending, handler, steps >>
    /\ rendered' = TRUE
    /\ installed' = installed

\* the listener of setupBoardEvents calls handleCellClick for a click
\* inside a cell element, which renderBoard creates
HandleCellClick(row, col) ==
    /\ UserCanAct
    /\ rendered
    /\ steps' = steps + 1
    /\ IF initialBoard[row][col] # 0
       THEN UNCHANGED << selectedCell, isRunning, message >>
       ELSE /\ selectedCell' = << row, col >>
            /\ isRunning' = IF ~isRunning /\ thisBoard[row][col] = 0
                            THEN TRUE ELSE isRunning
            /\ message' = "none"
    /\ UNCHANGED << board, entry, pc, op, args, retval, conflicts,
                    prevConflicts, calls, stack, rng, difficulty,
                    cellsToRemove, removed, solved, thisBoard, initialBoard,
                    hintVars, storeVars, msgTimers, timer,
                    currentDifficulty, pending, handler >>
    /\ UNCHANGED << rendered, installed >>

\* handleNumberInput with checkCompletion and autoSave
HandleNumberInput(num) ==
    /\ UserCanAct
    /\ steps' = steps + 1
    /\ IF selectedCell = Null
       THEN UNCHANGED << thisBoard, conflicts, isRunning, storeVars,
                         message, msgTimers >>
       ELSE IF initialBoard[selectedCell[1]][selectedCell[2]] # 0
       THEN UNCHANGED << thisBoard, conflicts, isRunning, storeVars,
                         message, msgTimers >>
       ELSE LET b1 == SetCell(thisBoard, selectedCell[1], selectedCell[2],
                              num)
                rend == DetectConflicts(b1)
                complete == FindEmpty(rend.board) = Null
                val == ValidateBoard(rend.board)
                b2 == IF complete THEN val.board ELSE rend.board
                won == complete /\ val.ok
            IN  /\ thisBoard' = b2
                /\ conflicts' = rend.conflicts
                /\ isRunning' = IF won THEN FALSE ELSE isRunning
                /\ IF won /\ currentDifficulty # NoDifficulty
                   THEN SaveTimeEffect(currentDifficulty, timer)
                   ELSE UNCHANGED << bestTimes, stats, timesSaved >>
                /\ savedGame' = AutoSaved(b2, initialBoard, timer,
                                          currentDifficulty)
                /\ message' = IF won THEN "congratulations"
                              ELSE IF complete THEN "completeWithErrors"
                              ELSE message
                /\ msgTimers' = IF complete /\ ~won THEN msgTimers + 1
                                ELSE msgTimers
    /\ UNCHANGED << board, entry, pc, op, args, retval, prevConflicts, calls,
                    stack, rng, difficulty, cellsToRemove, removed, solved,
                    initialBoard, hintVars, selectedCell, timer,
                    currentDifficulty, pending, handler >>
    /\ rendered' = (IF selectedCell = Null THEN rendered
                    ELSE IF initialBoard[selectedCell[1]][selectedCell[2]] # 0
                    THEN rendered ELSE TRUE)
    /\ installed' = installed

\* generateSudoku up to the call of solveRandomly inside generate
GenerateSudokuStart(d) ==
    /\ UserCanAct
    /\ steps <= MaxStepsBeforeGenerate
    /\ steps' = steps + 1
    /\ handler' = "generateSudoku"
    /\ difficulty' = d
    /\ board' = createEmptyBoard
    /\ entry' = createEmptyBoard
    /\ op' = "generate"
    /\ pc' = "enter"
    /\ UNCHANGED << args, retval, conflicts, prevConflicts, calls, stack,
                    rng, cellsToRemove, removed, solved, thisBoard,
                    initialBoard, hintVars, storeVars, selectedCell,
                    message, msgTimers, timer, isRunning,
                    currentDifficulty, pending >>
    /\ UNCHANGED << rendered, installed >>

\* generateSudoku after generate has returned
GenerateSudokuFinish ==
    /\ handler = "generateSudoku"
    /\ pc = "done"
    /\ op = "generate"
    /\ currentDifficulty' = difficulty
    /\ LET rend == DetectConflicts(thisBoard)
       IN  /\ thisBoard' = rend.board
           /\ conflicts' = rend.conflicts
           /\ savedGame' = GameState(rend.board, initialBoard, 0, difficulty)
    /\ selectedCell' = Null
    /\ timer' = 0
    /\ isRunning' = TRUE
    /\ message' = "none"
    /\ stats' = IncrementPlayedStats(stats, difficulty)
    /\ handler' = "none"
    /\ pc' = "idle"
    /\ UNCHANGED << board, entry, op, args, retval, prevConflicts, calls,
                    stack, rng, difficulty, cellsToRemove, removed, solved,
                    initialBoard, hintVars, bestTimes, timesSaved,
                    msgTimers, pending, steps >>
    /\ rendered' = TRUE
    /\ installed' = Null

\* solveSudoku: the part that runs at once
SolveSudoku ==
    /\ UserCanAct
    /\ FewEmpty(thisBoard)
    /\ steps' = steps + 1
    /\ message' = "none"
    /\ LET val == ValidateBoard(thisBoard)
       IN  /\ thisBoard' = val.board
           /\ pending' = Append(pending, val.ok)
    /\ UNCHANGED << board, entry, pc, op, args, retval, conflicts,
                    prevConflicts, calls, stack, rng, difficulty,
                    cellsToRemove, removed, solved, initialBoard, hintVars,
                    storeVars, selectedCell, msgTimers, timer, isRunning,
                    currentDifficulty, handler >>
    /\ UNCHANGED << rendered, installed >>

\* the setTimeout callback of solveSudoku up to the call of solve
SolveCallbackStart ==
    /\ pc = "idle"
    /\ pending # << >>
    /\ pending' = Tail(pending)
    /\ handler' = "solveCallback"
    /\ LET boardToSolve == IF Head(pending) THEN copyBoard(thisBoard)
                           ELSE copyBoard(initialBoard)
       IN  /\ board' = boardToSolve
           /\ entry' = boardToSolve
    /\ op' = "solve"
    /\ pc' = "enter"
    /\ stack' = << >>
    /\ UNCHANGED << args, retval, conflicts, prevConflicts, calls, rng,
                    difficulty, cellsToRemove, removed, solved, thisBoard,
                    initialBoard, hintVars, storeVars, selectedCell,
                    message, msgTimers, timer, isRunning,
                    currentDifficulty, steps >>
    /\ UNCHANGED << rendered, installed >>

\* the timer is stopped and the saved game cleared whatever solve returned
SolveCallbackFinish_AlwaysStops ==
    /\ handler = "solveCallback"
    /\ pc = "done"
    /\ op = "solve"
    /\ IF retval
       THEN LET rend == DetectConflicts(board)
            IN  /\ thisBoard' = rend.board
                /\ conflicts' = rend.conflicts
                /\ message' = "solved"
       ELSE /\ message' = "unsolved"
            /\ UNCHANGED << thisBoard, conflicts >>
    /\ isRunning' = FALSE
    /\ savedGame' = NoGame
    /\ handler' = "none"
    /\ pc' = "idle"
    /\ UNCHANGED << board, entry, op, args, retval, prevConflicts, calls,
                    stack, rng, difficulty, cellsToRemove, removed, solved,
                    initialBoard, hintVars, bestTimes, stats, timesSaved,
                    selectedCell, msgTimers, timer, currentDifficulty,
                    pending, steps >>
    /\ rendered' = (IF retval THEN TRUE ELSE rendered)
    /\ installed' = (IF retval THEN DetectConflicts(board).board ELSE installed)

\* the callback after solve has returned
SolveCallbackFinish ==
    /\ handler = "solveCallback"
    /\ pc = "done"
    /\ op = "solve"
    /\ IF retval
       THEN LET rend == DetectConflicts(board)
            IN  /\ thisBoard' = rend.board
                /\ conflicts' = rend.conflicts
                /\ isRunning' = FALSE
                /\ message' = "solved"
                /\ savedGame' = NoGame
       ELSE /\ message' = "unsolved"
            /\ UNCHANGED << thisBoard, conflicts, isRunning, savedGame >>
    /\ handler' = "none"
    /\ pc' = "idle"
    /\ UNCHANGED << board, entry, op, args, retval, prevConflicts, calls,
                    stack, rng, difficulty, cellsToRemove, removed, solved,
                    initialBoard, hintVars, bestTimes, stats, timesSaved,
                    selectedCell, msgTimers, timer, currentDifficulty,
                    pending, steps >>
    /\ rendered' = (IF retval THEN TRUE ELSE rendered)
    /\ installed' = (IF retval THEN DetectConflicts(board).board ELSE installed)

\* showHint up to the call of solve inside getHint
ShowHintStart ==
    /\ UserCanAct
    /\ FewEmpty(thisBoard)
    /\ steps' = steps + 1
    /\ handler' = "showHint"
    /\ GetHintBegin(thisBoard, rng)
    /\ UNCHANGED << args, retval, conflicts, prevConflicts, calls,
                    difficulty, cellsToRemove, removed, solved, thisBoard,
                    initialBoard, solveResult, storeVars, selectedCell,
                    message, msgTimers, timer, isRunning,
                    currentDifficulty, pending >>
    /\ UNCHANGED << rendered, installed >>

\* the hint is written into initialBoard as well
ShowHintFinish_WritesInitial ==
    /\ handler = "showHint"
    /\ pc = "done"
    /\ op = "getHint"
    /\ IF hint = NullHint
       THEN /\ message' = "boardComplete"
            /\ UNCHANGED << thisBoard, initialBoard, conflicts,
                            selectedCell, savedGame >>
       ELSE /\ thisBoard' = SetCell(hintArg, hint.row, hint.col, hint.num)
            /\ initialBoard' = SetCell(initialBoard, hint.row, hint.col,
                                       hint.num)
            /\ selectedCell' = << hint.row, hint.col >>
            /\ message' = "hint"
            /\ UNCHANGED << conflicts, savedGame >>
    /\ msgTimers' = msgTimers + 1
    /\ hintCell' = Null
    /\ handler' = "none"
    /\ pc' = "idle"
    /\ UNCHANGED << board, entry, op, args, retval, prevConflicts, calls,
                    stack, rng, difficulty, cellsToRemove, removed, solved,
                    hintArg, hint, solveResult, bestTimes,
                    stats, timesSaved, timer, isRunning, currentDifficulty,
                    pending, steps >>
    /\ rendered' = (IF hint = NullHint THEN rendered ELSE TRUE)
    /\ installed' = installed

\* showHint after getHint has returned; hintArg is this.solver.board
ShowHintFinish ==
    /\ handler = "showHint"
    /\ pc = "done"
    /\ op = "getHint"
    /\ IF hint = NullHint
       THEN /\ message' = "boardComplete"
            /\ UNCHANGED << thisBoard, conflicts, selectedCell, savedGame >>
       ELSE LET b1 == SetCell(hintArg, hint.row, hint.col, hint.num)
                rend == DetectConflicts(b1)
            IN  /\ thisBoard' = rend.board
                /\ conflicts' = rend.conflicts
                /\ selectedCell' = << hint.row, hint.col >>
                /\ message' = "hint"
                /\ savedGame' = AutoSaved(rend.board, initialBoard, timer,
                                          currentDifficulty)
    /\ msgTimers' = msgTimers + 1
    /\ hintCell' = Null
    /\ handler' = "none"
    /\ pc' = "idle"
    /\ UNCHANGED << board, entry, op, args, retval, prevConflicts, calls,
                    stack, rng, difficulty, cellsToRemove, removed, solved,
                    initialBoard, hintArg, hint, solveResult, bestTimes,
                    stats, timesSaved, timer, isRunning, currentDifficulty,
                    pending, steps >>
    /\ rendered' = (IF hint = NullHint THEN rendered ELSE TRUE)
    /\ installed' = installed

ResetBoard ==
    /\ UserCanAct
    /\ steps' = steps + 1
    /\ LET rend == DetectConflicts(copyBoard(initialBoard))
       IN  /\ thisBoard' = rend.board
           /\ conflicts' = rend.conflicts
           /\ savedGame' = AutoSaved(rend.board, initialBoard, 0,
                                     currentDifficulty)
    /\ selectedCell' = Null
    /\ isRunning' = FALSE
    /\ timer' = 0
    /\ message' = "none"
    /\ UNCHANGED << board, entry, pc, op, args, retval, prevConflicts, calls,
                    stack, rng, difficulty, cellsToRemove, removed, solved,
                    initialBoard, hintVars, bestTimes, stats, timesSaved,
                    msgTimers, currentDifficulty, pending, handler >>
    /\ rendered' = TRUE
    /\ installed' = Null

ClearBoard ==
    /\ UserCanAct
    /\ steps' = steps + 1
    /\ LET rend == DetectConflicts(createEmptyBoard)
       IN  /\ thisBoard' = rend.board
           /\ conflicts' = rend.conflicts
    /\ initialBoard' = createEmptyBoard
    /\ currentDifficulty' = NoDifficulty
    /\ selectedCell' = Null
    /\ isRunning' = FALSE
    /\ timer' = 0
    /\ message' = "none"
    /\ savedGame' = NoGame
    /\ UNCHANGED << board, entry, pc, op, args, retval, prevConflicts, calls,
                    stack, rng, difficulty, cellsToRemove, removed, solved,
                    hintVars, bestTimes, stats, timesSaved, msgTimers,
                    pending, handler >>
    /\ rendered' = TRUE
    /\ installed' = Null

SaveGame ==
    /\ UserCanAct
    /\ steps' = steps + 1
    /\ IF currentDifficulty # NoDifficulty
       THEN /\ savedGame' = GameState(thisBoard, initialBoard, timer,
                                      currentDifficulty)
            /\ message' = "gameSaved"
       ELSE /\ savedGame' = savedGame
            /\ message' = "generateFirst"
    /\ msgTimers' = msgTimers + 1
    /\ UNCHANGED << board, entry, pc, op, args, retval, conflicts,
                    prevConflicts, calls, stack, rng, difficulty,
                    cellsToRemove, removed, solved, thisBoard, initialBoard,
                    hintVars, bestTimes, stats, timesSaved, selectedCell,
                    timer, isRunning, currentDifficulty, pending, handler >>
    /\ UNCHANGED << rendered, installed >>

\* hideDialog reached from the dialog itself: the OK button of a message
\* shown with a button, or a click on the backdrop of one shown without;
\* the load dialog has buttons of its own and is closed by them only
HideDialog ==
    /\ UserCanAct
    /\ message \notin {"none", "load"}
    /\ steps' = steps + 1
    /\ message' = "none"
    /\ UNCHANGED << board, entry, pc, op, args, retval, conflicts,
                    prevConflicts, calls, stack, rng, difficulty,
                    cellsToRemove, removed, solved, thisBoard, initialBoard,
                    hintVars, storeVars, selectedCell, msgTimers, timer,
                    isRunning, currentDifficulty, pending, handler >>
    /\ UNCHANGED << rendered, installed >>

\* the one-second interval set by startTimer
Tick ==
    /\ pc = "idle"
    /\ isRunning
    /\ timer < MaxTime
    /\ timer' = timer + 1
    /\ UNCHANGED << board, entry, pc, op, args, retval, conflicts,
                    prevConflicts, calls, stack, rng, difficulty,
                    cellsToRemove, removed, solved, thisBoard, initialBoard,
                    hintVars, storeVars, selectedCell, message, msgTimers,
                    isRunning, currentDifficulty, pending, handler, steps >>
    /\ UNCHANGED << rendered, installed >>

\* the interval set by setupAutoSave
AutoSaveTick ==
    /\ pc = "idle"
    /\ isRunning
    /\ currentDifficulty # NoDifficulty
    /\ savedGame' = GameState(thisBoard, initialBoard, timer,
                              currentDifficulty)
    /\ UNCHANGED << board, entry, pc, op, args, retval, conflicts,
                    prevConflicts, calls, stack, rng, difficulty,
                    cellsToRemove, removed, solved, thisBoard, initialBoard,
                    hintVars, bestTimes, stats, timesSaved, ctlVars >>

\* the timeout set by showTemporaryMessage
MessageTimeout ==
    /\ pc = "idle"
    /\ msgTimers > 0
    /\ msgTimers' = msgTimers - 1
    /\ message' = "none"
    /\ UNCHANGED << board, entry, pc, op, args, retval, conflicts,
                    prevConflicts, calls, stack, rng, difficulty,
                    cellsToRemove, removed, solved, thisBoard, initialBoard,
                    hintVars, storeVars, selectedCell, timer, isRunning,
                    currentDifficulty, pending, handler, steps >>
    /\ UNCHANGED << rendered, installed >>

NextCtl ==
    \/ \E expired \in BOOLEAN : LoadAccept(expired)
    \/ LoadReject
    \/ \E cell \in ClickCells : HandleCellClick(cell[1], cell[2])
    \/ \E num \in KeysTried : HandleNumberInput(num)
    \/ \E d \in CtlTags : GenerateSudokuStart(d)
    \/ SolveRandomlyEnter
    \/ SolveRandomlyTry
    \/ SolveRandomlyReturn
    \/ GenerateLookup
    \/ GenerateRemove
    \/ GenerateStore
    \/ GenerateSudokuFinish
    \/ SolveSudoku
    \/ SolveCallbackStart
    \/ SolveEnter
    \/ SolveTry
    \/ SolveReturn
    \/ SolveCallbackFinish
    \/ ShowHintStart
    \/ GetHintReturn
    \/ ShowHintFinish
    \/ ResetBoard
    \/ ClearBoard
    \/ SaveGame
    \/ HideDialog
    \/ Tick
    \/ AutoSaveTick
    \/ MessageTimeout

SpecCtl == InitCtl /\ [][NextCtl]_vars

----------------------------------------------------------------------------
(* Sudoku rules, stated on cells and their peers.                          *)

SameUnit(p, q) ==
    /\ p # q
    /\ \/ p[1] = q[1]
       \/ p[2] = q[2]
       \/ p[1] \div 3 = q[1] \div 3 /\ p[2] \div 3 = q[2] \div 3

InRowElsewhere(b, r, c, v) == \E x \in Index : x # c /\ b[r][x] = v

InColElsewhere(b, r, c, v) == \E x \in Index : x # r /\ b[x][c] = v

InBoxElsewhere(b, r, c, v) ==
    \E q \in Cells : /\ q # << r, c >>
                     /\ q[1] \div 3 = r \div 3
                     /\ q[2] \div 3 = c \div 3
                     /\ b[q[1]][q[2]] = v

ZeroCells(b) == { p \in Cells : b[p[1]][p[2]] = 0 }

Full(b) == ZeroCells(b) = {}

\* filled cells whose value is also in another cell of a shared unit
Duplicated(b) ==
    { p \in Cells : /\ b[p[1]][p[2]] # 0
                    /\ \E q \in Cells : /\ SameUnit(p, q)
                                        /\ b[q[1]][q[2]] = b[p[1]][p[2]] }

ConflictFree(b) == Duplicated(b) = {}

\* b2 keeps every filled cell of b1
Agrees(b1, b2) ==
    \A p \in Cells : b1[p[1]][p[2]] # 0 => b2[p[1]][p[2]] = b1[p[1]][p[2]]

\* some filling of the empty cells of b gives a full conflict-free grid
RECURSIVE HasCompletion(_)
HasCompletion(b) ==
    /\ ConflictFree(b)
    /\ \/ Full(b)
       \/ LET p == CHOOSE q \in ZeroCells(b) : TRUE
          IN  \E v \in Numbers : HasCompletion(SetCell(b, p[1], p[2], v))

----------------------------------------------------------------------------
(* Claims.                                                                 *)

\* C1: on a cell that is empty in the board, isValid returns false exactly
\* when the value is in the cell's row at another column, in its column at
\* another row, or in its 3x3 box at another cell, and true otherwise; the
\* board is not changed.
C1_IsValidIffAbsentFromUnits ==
    (pc = "done" /\ op = "isValid" /\ entry[args.row][args.col] = 0)
    => /\ retval = ~ ( \/ InRowElsewhere(entry, args.row, args.col, args.num)
                       \/ InColElsewhere(entry, args.row, args.col, args.num)
                       \/ InBoxElsewhere(entry, args.row, args.col, args.num) )
       /\ board = entry

\* isValid has refused a value that is only in the box of the empty cell
C1_Witness ==
    /\ pc = "done" /\ op = "isValid"
    /\ entry[args.row][args.col] = 0
    /\ retval = FALSE
    /\ InBoxElsewhere(entry, args.row, args.col, args.num)
    /\ ~ InRowElsewhere(entry, args.row, args.col, args.num)
    /\ ~ InColElsewhere(entry, args.row, args.col, args.num)

\* C2: on a board that has a completion, solve terminates, returns true and
\* leaves a board without zero cell on which validateBoard returns true.
C2_SolveCompletesSolvableBoard ==
    /\ [] ( (pc = "done" /\ op = "solve" /\ HasCompletion(entry))
            => /\ retval = TRUE
               /\ Full(board)
               /\ ValidateBoard(board).ok )
    /\ (pc = "enter" /\ op = "solve" /\ stack = << >>
          /\ HasCompletion(entry))
       ~> (pc = "done" /\ op = "solve" /\ retval = TRUE)

\* solve has returned after undoing a placement, on a board with a completion
C2_Witness ==
    /\ pc = "done" /\ op = "solve"
    /\ retval = TRUE
    /\ Cardinality(ZeroCells(entry)) >= 3
    /\ HasCompletion(entry)
    /\ LET p == FindEmpty(entry)
       IN  \E v \in Numbers : /\ v < board[p[1]][p[2]]
                              /\ IsValid(entry, p[1], p[2], v)

\* C3: on a board without completion, solve returns false and leaves the
\* board as it was at the call.
C3_SolveRejectsBoardWithoutCompletion ==
    (pc = "done" /\ op = "solve" /\ ~ HasCompletion(entry))
    => /\ retval = FALSE
       /\ board = entry

\* solve has returned true on a board whose filled cells hold a duplicate
C3_SolveAcceptsDuplicate ==
    /\ pc = "done" /\ op = "solve"
    /\ retval = TRUE
    /\ ~ ConflictFree(entry)

\* solve has returned false on a board without duplicate and without
\* completion
C3_RejectedWithoutDuplicate ==
    /\ pc = "done" /\ op = "solve"
    /\ retval = FALSE
    /\ ConflictFree(entry)
    /\ stack = << >>

\* what solve does guarantee on a board without completion whose filled
\* cells hold no duplicate, and on every board when it returns false
C3_SolveRejectsConflictFreeBoardWithoutCompletion ==
    /\ (pc = "done" /\ op = "solve" /\ ~ HasCompletion(entry)
          /\ ConflictFree(entry))
       => (retval = FALSE /\ board = entry)
    /\ (pc = "done" /\ op = "solve" /\ retval = FALSE) => board = entry

\* C8: detectConflicts returns exactly the filled cells whose value is also
\* in another cell of their row, column or box; no empty cell is a member.
C8_DetectConflictsIsDuplicatedCells ==
    (pc = "done" /\ op = "detectConflicts")
    => /\ conflicts = Duplicated(entry)
       /\ conflicts \cap ZeroCells(entry) = {}

\* detectConflicts has reported several cells of a board with empty cells
C8_Witness ==
    /\ pc = "done" /\ op = "detectConflicts"
    /\ Cardinality(conflicts) >= 3
    /\ ZeroCells(entry) # {}

\* C9: detectConflicts leaves the board as it was, and a second call on the
\* board returns the same set as the first.
C9_DetectConflictsIdempotent ==
    (pc = "done" /\ op = "detectConflicts")
    => /\ board = entry
       /\ (calls >= 2 => conflicts = prevConflicts)

\* detectConflicts has run twice on a board with conflicts
C9_Witness ==
    /\ pc = "done" /\ op = "detectConflicts"
    /\ calls = 2
    /\ conflicts # {}

\* C10: validateBoard returns true exactly when detectConflicts returns the
\* empty set on the board, and leaves the board as it was on both paths.
C10_ValidateBoardIffNoConflicts ==
    (pc = "done" /\ op = "validateBoard")
    => /\ retval = (DetectConflicts(entry).conflicts = {})
       /\ board = entry

\* validateBoard has taken its early return on a board with conflicts
C10_Witness ==
    /\ pc = "done" /\ op = "validateBoard"
    /\ retval = FALSE
    /\ Duplicated(entry) # {}

\* C4: generate with easy, medium, hard leaves 81-35, 81-45, 81-55 filled
\* cells, and the stored initialBoard equals the stored and returned board.
C4_GenerateRemovesConfiguredCount ==
    (pc = "done" /\ op = "generate"
       /\ difficulty \in {"easy", "medium", "hard"})
    => /\ Cardinality(Cells \ ZeroCells(thisBoard)) =
              CASE difficulty = "easy" -> 81 - 35
                [] difficulty = "medium" -> 81 - 45
                [] difficulty = "hard" -> 81 - 55
       /\ initialBoard = thisBoard
       /\ thisBoard = board

\* generate("hard") has stored its puzzle
C4_Witness ==
    /\ pc = "done" /\ op = "generate"
    /\ difficulty = "hard"
    /\ removed = 55
    /\ initialBoard = thisBoard
    /\ Cardinality(ZeroCells(thisBoard)) = 55

\* C5: generate with a tag other than easy, medium, hard removes exactly 45
\* cells, as generate("medium") does.
C5_UnknownTagRemovesMediumCount ==
    (pc = "done" /\ op = "generate"
       /\ difficulty \notin {"easy", "medium", "hard"})
    => /\ removed = 45
       /\ Cardinality(ZeroCells(thisBoard)) = 45
       /\ initialBoard = thisBoard

\* the tags for which the medium count is taken: those that name no member
\* of DIFFICULTY_CONFIG, own or inherited
C5_UndefinedEntryRemovesMediumCount ==
    (pc = "done" /\ op = "generate"
       /\ difficulty \notin {"easy", "medium", "hard"}
       /\ difficulty \notin ObjectPrototypeKeys)
    => /\ removed = 45
       /\ Cardinality(ZeroCells(thisBoard)) = 45
       /\ initialBoard = thisBoard

\* generate("bogus") has stored a puzzle
C5_BogusStored ==
    /\ pc = "done" /\ op = "generate"
    /\ difficulty = "bogus"
    /\ removed = 45

\* C6: the board solveRandomly built in step 1 is full and conflict-free,
\* every filled cell of the puzzle holds that board's value, the puzzle has
\* no conflict, and solve on a copy of the puzzle returns true.
C6_PuzzleHasCompletion ==
    /\ (pc = "done" /\ op = "generate")
       => /\ Full(solved)
          /\ ConflictFree(solved)
          /\ Agrees(thisBoard, solved)
          /\ ConflictFree(thisBoard)
    /\ (pc = "done" /\ op = "solve")
       => /\ entry = thisBoard
          /\ retval = TRUE

\* solve has returned on a copy of a generated puzzle with 55 empty cells
C6_Witness ==
    /\ pc = "done" /\ op = "solve"
    /\ entry = thisBoard
    /\ Cardinality(ZeroCells(thisBoard)) = 55
    /\ Agrees(thisBoard, solved)
    /\ retval = TRUE

\* C7: solveRandomly on an all-zero board terminates, returns true and
\* leaves a board without zero cell on which validateBoard returns true.
C7_SolveRandomlyFillsEmptyBoard ==
    /\ [] ( (pc = "done" /\ op = "solveRandomly")
            => /\ retval = TRUE
               /\ Full(board)
               /\ ValidateBoard(board).ok )
    /\ (pc = "enter" /\ op = "solveRandomly" /\ stack = << >>)
       ~> (pc = "done" /\ op = "solveRandomly" /\ retval = TRUE)

\* solveRandomly has returned on a board that was all zero and whose first
\* row it did not fill in ascending order
C7_Witness ==
    /\ pc = "done" /\ op = "solveRandomly"
    /\ ZeroCells(entry) = Cells
    /\ retval = TRUE
    /\ board[0][0] > board[0][1]

----------------------------------------------------------------------------
(* getHint.                                                                *)

HintReturned == pc = "done" /\ op = "getHint"

\* values that no peer of the cell holds
LegalValues(b, r, c) ==
    { v \in Numbers : /\ ~InRowElsewhere(b, r, c, v)
                      /\ ~InColElsewhere(b, r, c, v)
                      /\ ~InBoxElsewhere(b, r, c, v) }

\* C11: whenever getHint returns a hint (row, col, num), the cell is empty
\* in the board it was given, num is in 1..9, and num is the value the cell
\* holds in a valid completion of that board: a full conflict-free grid
\* that keeps every nonzero cell of the board.
C11_HintIsValueOfValidCompletion ==
    (HintReturned /\ hint # NullHint)
    => /\ entry[hint.row][hint.col] = 0
       /\ hint.num \in Numbers
       /\ HasCompletion(SetCell(entry, hint.row, hint.col, hint.num))

\* a hint is returned for a board whose given cells hold a duplicate
C11_HintOnBoardWithoutCompletion ==
    /\ HintReturned
    /\ hint # NullHint
    /\ ~HasCompletion(entry)

\* C11 on boards whose filled cells hold no duplicate: the hint is the
\* value of an empty cell in a valid completion
C11_HintOnConflictFreeBoard ==
    (HintReturned /\ hint # NullHint /\ ConflictFree(entry))
    => /\ entry[hint.row][hint.col] = 0
       /\ hint.num \in Numbers
       /\ HasCompletion(SetCell(entry, hint.row, hint.col, hint.num))

\* C12: getHint never changes the board it is given, whether that board is
\* full, has a completion or has none: solve runs on a copy.
C12_GetHintLeavesBoardUnchanged ==
    /\ (op = "solve" /\ hintCell # Null) => hintArg = entry
    /\ HintReturned => hintArg = entry

\* a hint was returned after solve changed the copy, and a null was
\* returned after a run of solve on a copy
C12_Witness ==
    /\ HintReturned
    /\ hintCell # Null
    /\ hint # NullHint
    /\ board # entry
    /\ hintArg = entry

\* C13: on a board with exactly one empty cell (r, c) whose only legal
\* value is v, getHint returns { row: r, col: c, num: v }.
C13_SingleEmptyCellHint ==
    \A p \in Cells, v \in Numbers :
        (/\ HintReturned
         /\ ZeroCells(entry) = { p }
         /\ LegalValues(entry, p[1], p[2]) = { v })
        => hint = [row |-> p[1], col |-> p[2], num |-> v]

C13_Witness ==
    /\ HintReturned
    /\ Cardinality(ZeroCells(entry)) = 1
    /\ \E p \in ZeroCells(entry) :
           /\ Cardinality(LegalValues(entry, p[1], p[2])) = 1
           /\ hint.row = p[1]
           /\ hint.col = p[2]
           /\ hint.num \in LegalValues(entry, p[1], p[2])

\* C14: on a board with no empty cell getHint returns null without running
\* the solver (no cell chosen, no copy handed to solve, no value returned
\* by solve), whether or not the full board holds conflicts.
C14_FullBoardGivesNullWithoutSolving ==
    (HintReturned /\ Full(entry))
    => /\ hint = NullHint
       /\ hintCell = Null
       /\ retval = FALSE
       /\ stack = << >>
       /\ board = entry

\* null returned on a full board that holds a conflict
C14_Witness ==
    /\ HintReturned
    /\ Full(entry)
    /\ ~ConflictFree(entry)
    /\ hint = NullHint

\* C15: on a board with at least one empty cell getHint returns null only
\* if the board has no valid completion; when a valid completion exists it
\* returns a hint for the empty cell that was chosen.
C15_NullHintOnlyWithoutCompletion ==
    (HintReturned /\ ~Full(entry))
    => /\ hint = NullHint => ~HasCompletion(entry)
       /\ HasCompletion(entry)
          => /\ hint # NullHint
             /\ << hint.row, hint.col >> = hintCell
             /\ hintCell \in ZeroCells(entry)

\* null returned on a board that has empty cells
C15_Witness ==
    /\ HintReturned
    /\ ~Full(entry)
    /\ hint = NullHint
    /\ ~HasCompletion(entry)

\* a hint for an empty cell that is not the first one
C15_WitnessHint ==
    /\ HintReturned
    /\ HasCompletion(entry)
    /\ hint # NullHint
    /\ << hint.row, hint.col >> # FindEmpty(entry)

----------------------------------------------------------------------------
(* Recursion of solve.                                                     *)

NumEmpty(b) == Cardinality(ZeroCells(b))

\* C19: solve terminates on every board.  Each invocation (at its entry,
\* with as many callers as there are frames) works on a board with exactly
\* one empty cell fewer per caller than the board of the outermost call;
\* while an invocation tries candidates its own cell is empty again; the
\* depth never exceeds the number of empty cells of the outermost board,
\* which is at most 81; and every started run reaches its return.
C19_SolveTerminatesDepthBounded ==
    /\ [] ( op = "solve"
            => /\ pc = "enter"
                  => NumEmpty(board) = NumEmpty(entry) - Len(stack)
               /\ pc = "loop"
                  => NumEmpty(board) = NumEmpty(entry) - (Len(stack) - 1)
               /\ Len(stack) <= NumEmpty(entry)
               /\ NumEmpty(entry) <= BOARD_SIZE * BOARD_SIZE )
    /\ (op = "solve" /\ pc = "enter" /\ stack = << >>)
       ~> (op = "solve" /\ pc = "done" /\ stack = << >>)

\* an invocation at the greatest depth, entered again after a placement
\* was undone
C19_Witness ==
    /\ op = "solve"
    /\ pc = "enter"
    /\ NumEmpty(entry) >= 3
    /\ Len(stack) = NumEmpty(entry)
    /\ LET f == stack[1]
       IN  \E v \in Numbers : /\ v < f.num
                              /\ IsValid(entry, f.row, f.col, v)

----------------------------------------------------------------------------
(* solveRandomly against solve.                                            *)

\* C20: for every board and every choice of candidate permutations,
\* solveRandomly returns true exactly when solve returns true on an equal
\* board; when it returns true the board is full and keeps every nonzero
\* cell of the input; when it returns false the board is as it was.
C20_SolveRandomlyAgreesWithSolve ==
    (pc = "done" /\ op = "solveRandomly")
    => /\ retval = solveResult
       /\ retval => (Full(board) /\ Agrees(entry, board))
       /\ ~retval => board = entry

\* solveRandomly returned true with a first cell value other than the one
\* solve would place
C20_Witness ==
    /\ pc = "done" /\ op = "solveRandomly"
    /\ retval /\ solveResult
    /\ NumEmpty(entry) >= 3
    /\ LET p == FindEmpty(entry)
       IN  \E v \in Numbers : /\ v < board[p[1]][p[2]]
                              /\ IsValid(entry, p[1], p[2], v)

\* solveRandomly returned false after placing and undoing values
C20_WitnessFalse ==
    /\ pc = "done" /\ op = "solveRandomly"
    /\ ~retval /\ ~solveResult
    /\ LET p == FindEmpty(entry)
       IN  /\ p # Null
           /\ \E v \in Numbers : IsValid(entry, p[1], p[2], v)

----------------------------------------------------------------------------
(* Best times.                                                             *)

\* how often time t stands in a list
Occurrences(list, t) == Cardinality({ i \in 1 .. Len(list) : list[i] = t })

\* C18: after any sequence of saveTime calls the best-times list of each
\* difficulty has at most 10 entries, is in ascending order of time, and
\* holds the 10 smallest times ever saved for that difficulty (all of them
\* when fewer than 10 were saved).
C18_BestTimesAreTenSmallest ==
    \A d \in StoreTags :
        LET list == bestTimes[d]
            saved == timesSaved[d]
        IN  /\ Len(list) <= MAX_BEST_TIMES
            /\ \A i \in 1 .. Len(list), j \in 1 .. Len(list) :
                   i < j => list[i] <= list[j]
            /\ Len(list) = IF SavedCount(d) < MAX_BEST_TIMES
                           THEN SavedCount(d) ELSE MAX_BEST_TIMES
            /\ \A t \in TimesTried :
                   /\ Occurrences(list, t) <= saved[t]
                   /\ (\E i \in 1 .. Len(list) : list[i] > t)
                      => Occurrences(list, t) = saved[t]

\* an eleventh time was saved that is smaller than one already listed, and
\* the greatest saved time is no longer in the list
C18_Witness ==
    \E d \in StoreTags :
        /\ SavedCount(d) > MAX_BEST_TIMES
        /\ Len(bestTimes[d]) = MAX_BEST_TIMES
        /\ timesSaved[d][MaxTime] > 0
        /\ Occurrences(bestTimes[d], MaxTime) < timesSaved[d][MaxTime]
        /\ bestTimes[d][1] < bestTimes[d][MAX_BEST_TIMES]

----------------------------------------------------------------------------
(* The controller keeps the cells of the puzzle fixed.                     *)

\* every cell given by the puzzle holds its given value in the live board
FixedCellsKept ==
    \A p \in Cells :
        initialBoard[p[1]][p[2]] # 0
            => thisBoard[p[1]][p[2]] = initialBoard[p[1]][p[2]]

\* the steps that may replace initialBoard: generate storing the new
\* puzzle, loadSavedGame, clearBoard
InitialBoardMayChange ==
    \/ handler = "generateSudoku" /\ op = "generate"
    \/ message = "load" /\ message' = "loaded"
    \/ /\ UserCanAct
       /\ initialBoard' = createEmptyBoard
       /\ thisBoard' = createEmptyBoard
       /\ currentDifficulty' = NoDifficulty

\* C16: in every state the controller's operations reach, each cell whose
\* initialBoard value is nonzero holds that value in the live board, and
\* initialBoard changes only in a step of generate, of loadSavedGame or of
\* clearBoard
C16_FixedCellsMirrorInitialBoard ==
    /\ [] FixedCellsKept
    /\ [][initialBoard' # initialBoard => InitialBoardMayChange]_vars

\* a loaded game in which the player has selected a cell, typed a number
\* into it, and the live board differs from the puzzle
C16_Witness ==
    /\ pc = "idle"
    /\ initialBoard = SavedPuzzle
    /\ selectedCell = << 0, 4 >>
    /\ thisBoard[0][4] = 4
    /\ thisBoard[0][0] = initialBoard[0][0]
    /\ initialBoard[0][0] # 0

----------------------------------------------------------------------------
(* What solveSudoku solves.                                                *)

\* C17: solveSudoku solves from the initial board, so its outcome does not
\* depend on what the player has entered: it reports that no solution was
\* found only when the given cells of initialBoard have none (BaseGrid is
\* a full conflict-free grid, so a board that agrees with it has one and
\* solve finds one).
C17_SolveOutcomeIsThatOfInitialBoard ==
    (pc = "idle" /\ handler = "none" /\ message = "unsolved")
        => ~ Agrees(initialBoard, BaseGrid)

----------------------------------------------------------------------------
(* The removal loop of generate.                                           *)

\* the cell the next pass of the loop samples
SampledCell ==
    LET x1 == MathRandom(rng)
        x2 == MathRandom(x1)
    IN  << RandomBelow(x1, BOARD_SIZE), RandomBelow(x2, BOARD_SIZE) >>

InRemovalLoop == op = "generate" /\ pc = "remove"

\* removed counts the zero cells of the board being derived
RemovalLoopCounts ==
    InRemovalLoop
    => /\ removed = NumEmpty(board)
       /\ cellsToRemove.isNumber => removed <= cellsToRemove.n

\* a pass whose sample is an already-zero cell changes neither the board
\* nor the counter
RemovalLoopSkipsZeroCell ==
    (InRemovalLoop /\ pc' = "remove"
       /\ board[SampledCell[1]][SampledCell[2]] = 0)
    => /\ board' = board
       /\ removed' = removed

\* the loop is left with removed equal to cellsToRemove
RemovalLoopExit ==
    (InRemovalLoop /\ pc' # "remove")
    => /\ cellsToRemove.isNumber
       /\ removed = cellsToRemove.n

\* C21: the removal loop of generate exits; throughout the loop removed is
\* the number of zero cells of the board being derived and is at most
\* cellsToRemove, a sample on an already-zero cell changes nothing, and the
\* loop stops exactly when removed equals cellsToRemove.
C21_RemovalLoopCountsAndExits ==
    /\ [] RemovalLoopCounts
    /\ [][RemovalLoopSkipsZeroCell]_vars
    /\ [][RemovalLoopExit]_vars
    /\ InRemovalLoop ~> (op = "generate" /\ pc = "done")

\* the same for the tags whose DIFFICULTY_CONFIG entry is a number or
\* undefined
C21_RemovalLoopOnNumericCount ==
    /\ [] RemovalLoopCounts
    /\ [][RemovalLoopSkipsZeroCell]_vars
    /\ [][cellsToRemove.isNumber => RemovalLoopExit]_vars
    /\ InRemovalLoop ~> (op = "generate" /\ pc = "done")

\* a pass of the loop is about to sample a cell it has already zeroed
C21_SampleOnZeroCell ==
    /\ InRemovalLoop
    /\ LessThan(removed, cellsToRemove)
    /\ removed > 0
    /\ board[SampledCell[1]][SampledCell[2]] = 0

\* the loop is left at once for a count that is no number
C21_ExitWithoutCount ==
    /\ op = "generate" /\ pc = "done"
    /\ ~ cellsToRemove.isNumber
    /\ removed = 0

----------------------------------------------------------------------------
(* What showHint announces.                                                *)

\* C22: showHint announces that the board is already complete only when
\* the board has no empty cell; a null hint for a board with empty cells
\* that solve cannot complete is not announced as completion.
C22_CompleteAnnouncedOnlyOnFullBoard ==
    [][(handler = "showHint" /\ message' = "boardComplete")
           => Full(thisBoard')]_vars

\* showHint has announced completion of a board that has empty cells
C22_AnnouncedOnBoardWithEmptyCells ==
    /\ pc = "idle"
    /\ message = "boardComplete"
    /\ hint = NullHint
    /\ op = "getHint" /\ retval = FALSE
    /\ ~ Full(thisBoard)

----------------------------------------------------------------------------
(* The callback of solveSudoku when solve fails.                           *)

SolveFailedInCallback ==
    handler = "solveCallback" /\ pc = "done" /\ op = "solve" /\ ~ retval

\* C23: when the solve run started by solveSudoku returns false, the live
\* board and initialBoard are as they were when the callback started, the
\* timer keeps its running state, the saved game is kept, and the error
\* message is shown; the trial placements touch only the copy, which is
\* not installed.
C23_FailedSolveLeavesGameUntouched ==
    /\ [][(handler = "solveCallback" /\ (pc # "done" \/ ~ retval))
             => /\ thisBoard' = thisBoard
                /\ initialBoard' = initialBoard
                /\ isRunning' = isRunning
                /\ timer' = timer
                /\ savedGame' = savedGame]_vars
    /\ [][SolveFailedInCallback
             => /\ message' = "unsolved"
                /\ handler' = "none"]_vars
    /\ [] (SolveFailedInCallback => board = entry)

\* the callback has reported a failed solve of the player's board while
\* the timer runs and a saved game exists
C23_Witness ==
    /\ pc = "idle"
    /\ handler = "none"
    /\ message = "unsolved"
    /\ op = "solve" /\ ~ retval
    /\ entry = thisBoard
    /\ thisBoard # initialBoard
    /\ isRunning
    /\ savedGame.present

----------------------------------------------------------------------------
(* Statistics and the automatic solver.                                    *)

\* the live board is the array the callback of solveSudoku installed, with
\* the content it was installed with
SolverFilledBoard ==
    /\ pc = "idle"
    /\ handler = "none"
    /\ installed # Null
    /\ thisBoard = installed

\* C24: a completion produced by solveSudoku does not reach the
\* statistics: no time is saved by the callback that installs the solved
\* grid, nor by a later step taken on the board the solver filled.
C24_SolvedBoardSavesNoTime ==
    [][(handler = "solveCallback" \/ SolverFilledBoard)
           => /\ timesSaved' = timesSaved
              /\ bestTimes' = bestTimes]_vars

\* a time has been saved for the grid the solver installed
C24_TimeSavedForSolvedBoard ==
    /\ pc = "idle"
    /\ message = "congratulations"
    /\ op = "solve" /\ retval
    /\ thisBoard = board
    /\ TotalSaved = 1

----------------------------------------------------------------------------
(* The cells solve and solveRandomly write.                                *)

\* C25: solve and solveRandomly write only cells that were empty when the
\* outermost call started: in every state of a run and after it, whatever
\* the result, each cell that was nonzero on entry holds its entry value.
C25_SolversWriteOnlyEmptyCells ==
    (op \in {"solve", "solveRandomly"} /\ pc # "idle")
    => Agrees(entry, board)

\* solveRandomly, two invocations deep and past the first candidate of the
\* outermost one, on a board with given cells
C25_Witness ==
    /\ op = "solveRandomly"
    /\ pc = "loop"
    /\ Len(stack) >= 2
    /\ stack[1].k > 1
    /\ board # entry
    /\ entry # createEmptyBoard
    /\ Agrees(entry, board)

----------------------------------------------------------------------------
(* The completion solve returns.                                           *)

\* the empty cells of b can be filled in row-major order with values that
\* each pass isValid when placed
RECURSIVE HasValidFilling(_)
HasValidFilling(b) ==
    LET e == FindEmpty(b)
    IN  IF e = Null THEN TRUE
        ELSE \E v \in Numbers :
                 /\ IsValid(b, e[1], e[2], v)
                 /\ HasValidFilling(SetCell(b, e[1], e[2], v))

\* b0 with the first n cells of the sequence cells set to their value in b1
WithPrefix(b0, b1, cells, n) ==
    [r \in Index |-> [c \in Index |->
        IF \E j \in 1 .. n : cells[j] = << r, c >>
        THEN b1[r][c] ELSE b0[r][c]]]

\* the values of b1 in the empty cells of b0, read in row-major order, are
\* the least sequence among the fillings of b0 whose values each pass
\* isValid: at every position the value passes isValid after the values
\* before it, and no smaller value there begins such a filling
LeastValidFilling(b0, b1) ==
    LET cells == FindAllEmpty(b0)
    IN  /\ Full(b1)
        /\ Agrees(b0, b1)
        /\ \A i \in 1 .. Len(cells) :
               LET p == WithPrefix(b0, b1, cells, i - 1)
                   r == cells[i][1]
                   c == cells[i][2]
               IN  /\ IsValid(p, r, c, b1[r][c])
                   /\ \A v \in Numbers :
                          v < b1[r][c]
                          => ~ ( /\ IsValid(p, r, c, v)
                                 /\ HasValidFilling(SetCell(p, r, c, v)) )

\* C26: solve is a function of the board it is given: it returns true
\* exactly when the empty cells have a filling whose values each pass
\* isValid, the board then holds the lexicographically least such filling
\* (row-major order), and on false the board is as it was; so two runs on
\* equal boards end with equal boards and equal results.
C26_SolveReturnsLeastCompletion ==
    (pc = "done" /\ op = "solve")
    => /\ retval = HasValidFilling(entry)
       /\ retval => LeastValidFilling(entry, board)
       /\ ~ retval => board = entry

\* solve has returned a completion in which some cell holds a value greater
\* than one that passed isValid there: the smaller value was placed and
\* undone
C26_Witness ==
    /\ pc = "done" /\ op = "solve"
    /\ retval
    /\ NumEmpty(entry) >= 2
    /\ LET cells == FindAllEmpty(entry)
       IN  \E i \in 1 .. Len(cells) :
               LET p == WithPrefix(entry, board, cells, i - 1)
                   r == cells[i][1]
                   c == cells[i][2]
               IN  \E v \in Numbers : /\ v < board[r][c]
                                      /\ IsValid(p, r, c, v)

----------------------------------------------------------------------------
(* The grid the deferred callback of solveSudoku installs.                 *)

\* C27: whenever the callback of solveSudoku reports success and installs
\* the solved grid as the live board, the grid has no empty cell and no
\* conflict (validateBoard is true), whatever handlers ran between the
\* request and the callback.
C27_InstalledGridIsValidSolution ==
    [][(handler = "solveCallback" /\ message' = "solved")
           => /\ Full(thisBoard')
              /\ ValidateBoard(thisBoard').ok
              /\ ConflictFree(thisBoard')]_vars

\* the callback has installed a grid with a conflict as solved
C27_ConflictingGridInstalled ==
    /\ pc = "idle"
    /\ handler = "none"
    /\ message = "solved"
    /\ op = "solve" /\ retval
    /\ thisBoard = board
    /\ ~ ConflictFree(thisBoard)

----------------------------------------------------------------------------
(* Statistics and the saved game after a completion by the player.         *)

\* C28: for every difficulty the stored completed count is at most the
\* stored played count, so a puzzle is counted as completed at most once.
C28_CompletedAtMostPlayed ==
    \A d \in DOMAIN stats : stats[d].completed <= stats[d].played

\* one puzzle has been counted as completed twice
C28_CompletedTwice ==
    /\ pc = "idle"
    /\ "easy" \in DOMAIN stats
    /\ stats["easy"].played = 1
    /\ stats["easy"].completed = 2
    /\ initialBoard = SavedPuzzle

\* C29: when the input that completes the puzzle correctly has been
\* handled (the step in which the time is saved), no saved game is in
\* storage.
C29_NoSavedGameAfterCompletion ==
    [][timesSaved' # timesSaved => ~ savedGame'.present]_vars

\* the completed game is in storage after the input that completed it
C29_CompletedGameSaved ==
    /\ pc = "idle"
    /\ message = "congratulations"
    /\ TotalSaved = 1
    /\ savedGame.present
    /\ savedGame.board = thisBoard
    /\ Full(thisBoard)

----------------------------------------------------------------------------
(* The statistics entry against the times saved.                           *)

\* the least time saved for difficulty d, and the sum of the times saved
MinSaved(d) ==
    CHOOSE t \in TimesTried :
        /\ timesSaved[d][t] > 0
        /\ \A u \in TimesTried : timesSaved[d][u] > 0 => t <= u

SumSaved(d) == SumOver([t \in TimesTried |-> t * timesSaved[d][t]],
                       TimesTried)

StatsMatchSaves(d) ==
    /\ d \in DOMAIN stats
    /\ stats[d].bestTime = Num(MinSaved(d))
    /\ stats[d].bestTime.n = bestTimes[d][1]
    /\ stats[d].completed = SavedCount(d)
    /\ stats[d].totalTime = SumSaved(d)

\* C30: after any saveTime calls for a difficulty, with times 0 or more,
\* the bestTime of its statistics entry is the least time saved and the
\* time of the first entry of its best-times list, completed is the number
\* of saves and totalTime their sum.
C30_BestTimeIsMinimumSaved ==
    \A d \in StoreTags : SavedCount(d) > 0 => StatsMatchSaves(d)

\* the same when no time 0 was saved for the difficulty
C30_BestTimeIsMinimumOfPositiveTimes ==
    \A d \in StoreTags :
        (SavedCount(d) > 0 /\ timesSaved[d][0] = 0) => StatsMatchSaves(d)

\* a time 0 was saved and bestTime is a greater time
C30_ZeroTimeForgotten ==
    \E d \in StoreTags :
        /\ timesSaved[d][0] > 0
        /\ d \in DOMAIN stats
        /\ stats[d].bestTime.kind = "number"
        /\ stats[d].bestTime.n > 0
        /\ bestTimes[d][1] = 0

\* positive times were saved, the least of them not first
C30_PositiveTimesSaved ==
    \E d \in StoreTags :
        /\ timesSaved[d][0] = 0
        /\ SavedCount(d) >= 3
        /\ timesSaved[d][1] > 0
        /\ timesSaved[d][MaxTime] > 0
        /\ stats[d].bestTime = Num(1)

====
